---- MODULE Spec2Model ----
(***************************************************************************)
(* Report / alert execution of superset/reports/commands/execute.py:       *)
(* the notification dispatcher (_send), the three state handlers, the      *)
(* state machine driver and the persisted schedule row + execution log.    *)
(***************************************************************************)
EXTENDS Integers, Sequences, FiniteSets, TLC

(***************************************************************************)
(* Bounds of the model                                                     *)
(***************************************************************************)
\* number of invocations of the command that are started
MaxRuns == 2
\* last value of the clock (datetime.utcnow(), in seconds)
MaxTime == 2
\* grace_period of a schedule that has one (seconds)
GracePeriod == 1
\* working_timeout of a schedule that has one (seconds)
WorkingTimeout == 1
\* recipients configured on the schedule
NumRecipients == 2
\* owners of the schedule
NumOwners == 2
\* longest recipient list handed to _send when it is checked on its own
MaxRecipients == 3
\* most components of the layout of a dashboard
MaxNodes == 4
\* most native filters of a dashboard
MaxFilters == 2
\* most sub-queries of a stored query context
MaxQueries == 2
\* calls of get and compute_and_cache made on one screenshot object
MaxCalls == 3
\* different images the screenshot driver can return
NumImages == 2

(***************************************************************************)
(* Values                                                                  *)
(***************************************************************************)
\* Python None in a string-valued / number-valued field
None == "None"
NoneNum == -1

NOOP == "NOOP"
WORKING == "WORKING"
SUCCESS == "SUCCESS"
ERROR == "ERROR"
GRACE == "GRACE"
ReportState == {NOOP, WORKING, SUCCESS, ERROR, GRACE}
\* a persisted value that is not a member of the enum (corrupt row)
UNKNOWN == "UNKNOWN"

ALERT == "ALERT"
REPORT == "REPORT"
ReportScheduleType == {ALERT, REPORT}

\* ReportDataFormat
VISUALIZATION == "VISUALIZATION"
PDF == "PDF"
DASHBOARD_PDF == "DASHBOARD_PDF"
DATA == "DATA"
TEXT == "TEXT"
ReportDataFormat == {VISUALIZATION, PDF, DASHBOARD_PDF, DATA, TEXT}

REPORT_SCHEDULE_ERROR_NOTIFICATION_MARKER == "Notification sent with error"

\* ErrorLevel
LevelError == "error"
LevelWarning == "warning"

\* status of the exception a notification channel raises; StatusSent: no raise
StatusSent == 200
SendStatuses == {StatusSent, 400, 500}
\* the outcomes of a channel the invocations of the schedule are run with
ChannelStatuses == {StatusSent, 500}

ReportScheduleSystemErrorsException == "ReportScheduleSystemErrorsException"
ReportScheduleClientErrorsException == "ReportScheduleClientErrorsException"
ReportSchedulePreviousWorkingError == "ReportSchedulePreviousWorkingError"
ReportScheduleWorkingTimeoutError == "ReportScheduleWorkingTimeoutError"
ReportScheduleAlertGracePeriodError == "ReportScheduleAlertGracePeriodError"
ReportScheduleStateNotFoundError == "ReportScheduleStateNotFoundError"
ReportScheduleScreenshotFailedError == "ReportScheduleScreenshotFailedError"
ReportScheduleScreenshotTimeout == "ReportScheduleScreenshotTimeout"
AlertQueryError == "AlertQueryError"
ReportScheduleNotFoundError == "ReportScheduleNotFoundError"
ReportScheduleUnexpectedError == "ReportScheduleUnexpectedError"
ReportSchedulePdfFailedError == "ReportSchedulePdfFailedError"
ReportSchedulePdfTimeout == "ReportSchedulePdfTimeout"
ReportScheduleCsvFailedError == "ReportScheduleCsvFailedError"
ReportScheduleCsvTimeout == "ReportScheduleCsvTimeout"
ReportScheduleDataFrameFailedError == "ReportScheduleDataFrameFailedError"
ReportScheduleDataFrameTimeout == "ReportScheduleDataFrameTimeout"
\* celery's signal of the soft time limit of the task
SoftTimeLimitExceeded == "SoftTimeLimitExceeded"
\* an exception of no class of the application (KeyError, AttributeError...)
Exception == "Exception"
NoException == "none"

\* the exceptions that are instances of CommandException
CommandException ==
    {ReportScheduleSystemErrorsException, ReportScheduleClientErrorsException,
     ReportSchedulePreviousWorkingError, ReportScheduleWorkingTimeoutError,
     ReportScheduleAlertGracePeriodError, ReportScheduleStateNotFoundError,
     ReportScheduleScreenshotFailedError, ReportScheduleScreenshotTimeout,
     AlertQueryError, ReportScheduleNotFoundError,
     ReportScheduleUnexpectedError, ReportSchedulePdfFailedError,
     ReportSchedulePdfTimeout, ReportScheduleCsvFailedError,
     ReportScheduleCsvTimeout, ReportScheduleDataFrameFailedError,
     ReportScheduleDataFrameTimeout}

VARIABLES
    callArgs,    \* arguments of a call of a function checked on its own
    callResult,  \* what that call did
    sendArgs,    \* arguments of a call of _send checked on its own
    sendResult,  \* what that call did
    config,      \* the schedule's configuration and the application's
    db,          \* the persisted state fields of the schedule row
    log,         \* the execution log of the schedule, oldest row first
    now,         \* the clock
    runs,        \* invocations started so far
    proc         \* the invocations: position, in-memory schedule, history

vars ==
    <<callArgs, callResult, sendArgs, sendResult, config, db, log, now, runs,
      proc>>

(***************************************************************************)
(* BaseReportState._send                                                   *)
(***************************************************************************)
\* as ErrorLevelOf, with > for >=
ErrorLevelOf_Above500(status) ==
    IF status > 500 THEN LevelError ELSE LevelWarning

\* level=ErrorLevel.ERROR if ex.status >= 500 else ErrorLevel.WARNING
ErrorLevelOf(status) ==
    IF status >= 500 THEN LevelError ELSE LevelWarning

\* as SendLoop, but the loop is left at the first notification that fails
RECURSIVE SendLoop_FailFast(_, _, _, _)
SendLoop_FailFast(recipients, status, dry_run, acc) ==
    IF recipients = <<>> THEN acc
    ELSE LET recipient == Head(recipients)
             raised == ~dry_run /\ status[recipient] # StatusSent
             next == [attempted |-> Append(acc.attempted, recipient),
                      transmitted |->
                          IF dry_run THEN acc.transmitted
                          ELSE Append(acc.transmitted, recipient),
                      errors |->
                          IF raised
                          THEN Append(acc.errors,
                                      [recipient |-> recipient,
                                       level |-> ErrorLevelOf(status[recipient])])
                          ELSE acc.errors]
         IN IF raised THEN next
            ELSE SendLoop_FailFast(Tail(recipients), status, dry_run, next)

\* the for loop of _send as if it sent whatever the dry-run setting
RECURSIVE SendLoop_NoDryRun(_, _, _, _)
SendLoop_NoDryRun(recipients, status, dry_run, acc) ==
    IF recipients = <<>> THEN acc
    ELSE LET recipient == Head(recipients)
             raised == status[recipient] # StatusSent
             next == [attempted |-> Append(acc.attempted, recipient),
                      transmitted |-> Append(acc.transmitted, recipient),
                      errors |->
                          IF raised
                          THEN Append(acc.errors,
                                      [recipient |-> recipient,
                                       level |-> ErrorLevelOf(status[recipient])])
                          ELSE acc.errors]
         IN SendLoop_NoDryRun(Tail(recipients), status, dry_run, next)

\* the for loop of _send: acc is (attempted, transmitted, notification_errors)
RECURSIVE SendLoop(_, _, _, _)
SendLoop(recipients, status, dry_run, acc) ==
    IF recipients = <<>> THEN acc
    ELSE LET recipient == Head(recipients)
             raised == ~dry_run /\ status[recipient] # StatusSent
             next == [attempted |-> Append(acc.attempted, recipient),
                      transmitted |->
                          IF dry_run THEN acc.transmitted
                          ELSE Append(acc.transmitted, recipient),
                      errors |->
                          IF raised
                          THEN Append(acc.errors,
                                      [recipient |-> recipient,
                                       level |-> ErrorLevelOf(status[recipient])])
                          ELSE acc.errors]
         IN SendLoop(Tail(recipients), status, dry_run, next)

\* the raise after the loop
SendRaise(errors) ==
    IF errors = <<>> THEN NoException
    ELSE IF \E i \in 1..Len(errors) : errors[i].level = LevelError
         THEN ReportScheduleSystemErrorsException
         ELSE IF \E i \in 1..Len(errors) : errors[i].level = LevelWarning
              THEN ReportScheduleClientErrorsException
              ELSE NoException

\* _send(notification_content, recipients); status[r] is what the channel of
\* recipient r does when notification.send() is called
_send(recipients, status, dry_run) ==
    LET r == SendLoop(recipients, status, dry_run,
                      [attempted |-> <<>>, transmitted |-> <<>>, errors |-> <<>>])
    IN [attempted |-> r.attempted,
        transmitted |-> r.transmitted,
        errors |-> r.errors,
        raised |-> SendRaise(r.errors)]

\* no function is checked on its own
NoCall == [called |-> FALSE]

NotCalled == [attempted |-> <<>>, transmitted |-> <<>>, errors |-> <<>>,
              raised |-> "not called"]
NoArgs == [recipients |-> <<>>, status |-> <<>>, dry_run |-> FALSE,
           called |-> FALSE]

\* recipient lists 1..n with one outcome per recipient
SendInputs ==
    UNION {{[recipients |-> [i \in 1..n |-> i], status |-> s,
             dry_run |-> d, called |-> FALSE] :
               s \in [1..n -> SendStatuses], d \in BOOLEAN} :
           n \in 0..MaxRecipients}

(***************************************************************************)
(* Exceptions and their messages                                           *)
(***************************************************************************)
\* the exceptions that carry a list of errors (SupersetErrorsException)
SupersetErrorsException ==
    {ReportScheduleSystemErrorsException, ReportScheduleClientErrorsException}

\* str(ex): the message of the exception
Str(ex) == "str:" \o ex

\* ";".join([error.message for error in ex.errors])
JoinedMessages(ex) == "errors:" \o ex

(***************************************************************************)
(* ReportScheduleDAO queries on the execution log (superset/reports/dao.py):*)
(* the most recent log row that matches a predicate                        *)
(***************************************************************************)
\* .order_by(end_dttm.desc()).first(): the position in the log of the most
\* recent of the rows at the positions found, 0 (NoRow) when there is none;
\* the clock never goes back, so the most recent row is the last one
NoRow == 0
MostRecent(found) ==
    IF found = {} THEN NoRow
    ELSE CHOOSE i \in found : \A j \in found : j <= i

find_last_success_log(rows) ==
    MostRecent({i \in 1..Len(rows) : rows[i].state = SUCCESS})

find_last_error_notification(rows) ==
    MostRecent({i \in 1..Len(rows) :
        rows[i].error_message = REPORT_SCHEDULE_ERROR_NOTIFICATION_MARKER})

find_last_entered_working_log(rows) ==
    MostRecent({i \in 1..Len(rows) :
        rows[i].state = WORKING /\ rows[i].error_message = None})

(***************************************************************************)
(* BaseReportState: grace and timeout windows                              *)
(***************************************************************************)
\* truth value of an optional number of seconds (None and 0 are falsy)
Truthy(seconds) == seconds # NoneNum /\ seconds # 0

\* as is_in_grace_period, with the comparison of the window turned round
is_in_grace_period_Flipped(rows, time) ==
    LET last_success == find_last_success_log(rows)
    IN /\ last_success # NoRow
       /\ Truthy(config.grace_period)
       /\ time - config.grace_period > rows[last_success].end_dttm

\* as is_in_grace_period, without the comparison of the window
is_in_grace_period_NoWindow(rows, time) ==
    LET last_success == find_last_success_log(rows)
    IN /\ last_success # NoRow
       /\ Truthy(config.grace_period)

\* as is_in_grace_period, with the window laid before the last success
is_in_grace_period_Before(rows, time) ==
    LET last_success == find_last_success_log(rows)
    IN /\ last_success # NoRow
       /\ Truthy(config.grace_period)
       /\ time + config.grace_period < rows[last_success].end_dttm

\* as is_in_grace_period, but a period that is not set is a window without end
is_in_grace_period_Unset(rows, time) ==
    LET last_success == find_last_success_log(rows)
    IN /\ last_success # NoRow
       /\ Truthy(config.grace_period) =>
              time - config.grace_period < rows[last_success].end_dttm

is_in_grace_period(rows, time) ==
    LET last_success == find_last_success_log(rows)
    IN /\ last_success # NoRow
       /\ Truthy(config.grace_period)
       /\ time - config.grace_period < rows[last_success].end_dttm

\* as is_in_error_grace_period, with the comparison of the window turned round
is_in_error_grace_period_Flipped(rows, time) ==
    LET last_success == find_last_error_notification(rows)
    IN IF last_success = NoRow THEN FALSE
       ELSE /\ Truthy(config.grace_period)
            /\ time - config.grace_period > rows[last_success].end_dttm

is_in_error_grace_period(rows, time) ==
    LET last_success == find_last_error_notification(rows)
    IN IF last_success = NoRow THEN FALSE
       ELSE /\ Truthy(config.grace_period)
            /\ time - config.grace_period < rows[last_success].end_dttm

\* as is_on_working_timeout, with the comparison of the window turned round
is_on_working_timeout_Flipped(rows, time, model) ==
    LET last_working == find_last_entered_working_log(rows)
    IN IF last_working = NoRow THEN FALSE
       ELSE /\ config.working_timeout # NoneNum
            /\ model.last_eval_dttm # NoneNum
            /\ time - config.working_timeout < rows[last_working].end_dttm

\* as is_on_working_timeout, with the test of the row found negated
is_on_working_timeout_FoundIsFalse(rows, time, model) ==
    LET last_working == find_last_entered_working_log(rows)
    IN IF last_working # NoRow THEN FALSE
       ELSE /\ config.working_timeout # NoneNum
            /\ model.last_eval_dttm # NoneNum

\* as is_on_working_timeout, but a schedule with working_timeout unset is
\* timed out as soon as a WORKING row is found
is_on_working_timeout_UnsetIsElapsed(rows, time, model) ==
    LET last_working == find_last_entered_working_log(rows)
    IN IF last_working = NoRow THEN FALSE
       ELSE \/ config.working_timeout = NoneNum
            \/ /\ model.last_eval_dttm # NoneNum
               /\ time - config.working_timeout > rows[last_working].end_dttm

is_on_working_timeout(rows, time, model) ==
    LET last_working == find_last_entered_working_log(rows)
    IN IF last_working = NoRow THEN FALSE
       ELSE /\ config.working_timeout # NoneNum
            /\ model.last_eval_dttm # NoneNum
            /\ time - config.working_timeout > rows[last_working].end_dttm

(***************************************************************************)
(* ReportScheduleStateMachine                                              *)
(***************************************************************************)
ReportWorkingState == "ReportWorkingState"
ReportNotTriggeredErrorState == "ReportNotTriggeredErrorState"
ReportSuccessState == "ReportSuccessState"
NoHandler == "no handler"

current_states(state_cls) ==
    CASE state_cls = ReportWorkingState -> {WORKING}
      [] state_cls = ReportNotTriggeredErrorState -> {NOOP, ERROR}
      [] state_cls = ReportSuccessState -> {SUCCESS, GRACE}

initial(state_cls) == state_cls = ReportNotTriggeredErrorState

states_cls ==
    <<ReportWorkingState, ReportNotTriggeredErrorState, ReportSuccessState>>

\* as SelectState, but the initial flag of a class is not looked at
RECURSIVE SelectState_NoInitial(_, _)
SelectState_NoInitial(classes, last_state) ==
    IF classes = <<>> THEN NoHandler
    ELSE IF last_state \in current_states(Head(classes))
         THEN Head(classes)
         ELSE SelectState_NoInitial(Tail(classes), last_state)

\* the loop of ReportScheduleStateMachine.run: the first class that matches
RECURSIVE SelectState(_, _)
SelectState(classes, last_state) ==
    IF classes = <<>> THEN NoHandler
    ELSE IF \/ (last_state = None /\ initial(Head(classes)))
            \/ last_state \in current_states(Head(classes))
         THEN Head(classes)
         ELSE SelectState(Tail(classes), last_state)

\* first position of a handler's next()
EntryOf(state_cls) ==
    CASE state_cls = ReportWorkingState -> "wrk_next"
      [] state_cls = ReportNotTriggeredErrorState -> "nte_next"
      [] state_cls = ReportSuccessState -> "suc_next"
      [] OTHER -> "done"

(***************************************************************************)
(* State of one invocation                                                 *)
(***************************************************************************)
Procs == {1}
\* two invocations of the schedule whose executions overlap
OverlapProcs == {1, 2}

Recipients == [i \in 1..NumRecipients |-> i]
\* one e-mail recipient per owner (send_error)
OwnerRecipients == [i \in 1..NumOwners |-> i]

\* no create_log is due
NoPend == [error_message |-> None, cont |-> "none", exit |-> "none"]

IdleProc ==
    [pc |-> "idle",
     uuid |-> 0,                 \* execution id
     model |-> [last_state |-> None, last_eval_dttm |-> NoneNum,
                last_value |-> NoneNum],   \* self._report_schedule
     loaded_state |-> None,      \* last_state as validate loaded it
     handler |-> NoHandler,      \* the state class whose next() runs
     trigger |-> "none",         \* outcome of AlertCommand in this run
     first_ex |-> NoException,   \* the exception being handled
     result |-> "none",          \* "returned" or the exception raised
     outcome |-> "none",         \* what the command's run() ends with
     checked_dttm |-> NoneNum,   \* utcnow() of the window check of the run
     updates |-> 0,              \* calls of update_report_schedule
     evals |-> 0,                \* runs of AlertCommand
     renders |-> 0,              \* calls of _get_notification_content
     sent |-> <<>>,              \* recipients a notification was sent to
     error_calls |-> 0,          \* calls of send_error
     owner_sent |-> <<>>,        \* owners an error notification was sent to
     second_ex |-> NoException,  \* the exception send_error raised
     pend |-> NoPend]            \* the create_log that follows an update

Running(p) == proc[p].pc \notin {"idle", "done"}

\* rows of the execution log written by invocation p
RowsOf(p) == SelectSeq(log, LAMBDA row : row.uuid = proc[p].uuid)

\* as run_except, without the clause for Exception
run_except_CommandOnly(exit) == exit

\* the except clauses of AsyncExecuteReportScheduleCommand.run: what the
\* caller sees when the body of the try returns or raises exit
run_except(exit) ==
    IF exit = "returned" \/ exit \in CommandException
    THEN exit
    ELSE ReportScheduleUnexpectedError

\* next() ends: it returns, or raises exit
Finish(r, exit) ==
    [r EXCEPT !.pc = "done", !.result = exit, !.outcome = run_except(exit)]

\* where the invocation is after a transition: at cont, or out of next()
After(r, cont, exit) ==
    IF cont = "done" THEN Finish(r, exit) ELSE [r EXCEPT !.pc = cont]

(***************************************************************************)
(* BaseReportState.update_report_schedule / create_log                     *)
(***************************************************************************)
\* as update_report_schedule, but entering WORKING keeps the carried value
update_report_schedule_KeepValue(model, state, time) ==
    [last_state |-> state,
     last_eval_dttm |-> time,
     last_value |-> model.last_value]

\* the schedule object after update_report_schedule(state)
update_report_schedule(model, state, time) ==
    [last_state |-> state,
     last_eval_dttm |-> time,
     last_value |-> IF state = WORKING THEN NoneNum ELSE model.last_value]

\* as create_log, but the row carries the state the invocation loaded
create_log_LoadedState(r, error_message, time) ==
    [uuid |-> r.uuid,
     end_dttm |-> time,
     value |-> r.model.last_value,
     state |-> r.loaded_state,
     error_message |-> error_message]

\* the row create_log adds
create_log(r, error_message, time) ==
    [uuid |-> r.uuid,
     end_dttm |-> time,
     value |-> r.model.last_value,
     state |-> r.model.last_state,
     error_message |-> error_message]

\* as update_report_schedule_and_log, but the log row is never written
update_report_schedule_and_log_NoLog(p, r, state, error_message, cont, exit) ==
    LET model == update_report_schedule(r.model, state, now)
        updated == [r EXCEPT !.model = model, !.updates = @ + 1]
    IN /\ db' = model
       /\ log' = log
       /\ proc' = [proc EXCEPT ![p] = After(updated, cont, exit)]

\* as update_report_schedule_and_log, but an invocation whose schedule was
\* written by another one since it wrote it last goes on without writing
update_report_schedule_and_log_Fenced(p, r, state, error_message, cont, exit) ==
    LET model == update_report_schedule(r.model, state, now)
        updated == [r EXCEPT !.model = model, !.updates = @ + 1]
    IN IF db.last_state # r.model.last_state
       THEN /\ db' = db
            /\ log' = log
            /\ proc' = [proc EXCEPT ![p] = After(updated, cont, exit)]
       ELSE IF DOMAIN proc = Procs
       THEN /\ db' = model
            /\ log' = Append(log, create_log(updated, error_message, now))
            /\ proc' = [proc EXCEPT ![p] = After(updated, cont, exit)]
       ELSE /\ db' = model
            /\ log' = log
            /\ proc' = [proc EXCEPT ![p] =
                           [updated EXCEPT !.pc = "create_log",
                                           !.pend = [error_message |-> error_message,
                                                     cont |-> cont,
                                                     exit |-> exit]]]

\* update_report_schedule_and_log(state, error_message) by invocation p, whose
\* record is r; the invocation goes on at cont (cont = "done": next() ends
\* with exit)
\* update_report_schedule commits and create_log commits after it. With one
\* invocation at a time nothing comes between the two commits and they are
\* one step; with overlapping invocations the step ends at the first commit
\* and CreateLog is the second
update_report_schedule_and_log(p, r, state, error_message, cont, exit) ==
    LET model == update_report_schedule(r.model, state, now)
        updated == [r EXCEPT !.model = model, !.updates = @ + 1]
    IN IF DOMAIN proc = Procs
       THEN /\ db' = model
            /\ log' = Append(log, create_log(updated, error_message, now))
            /\ proc' = [proc EXCEPT ![p] = After(updated, cont, exit)]
       ELSE /\ db' = model
            /\ log' = log
            /\ proc' = [proc EXCEPT ![p] =
                           [updated EXCEPT !.pc = "create_log",
                                           !.pend = [error_message |-> error_message,
                                                     cont |-> cont,
                                                     exit |-> exit]]]

\* as CreateLog, but the invocation goes on without the row
CreateLog_Lost(p) ==
    /\ proc[p].pc = "create_log"
    /\ proc' = [proc EXCEPT ![p] = After([proc[p] EXCEPT !.pend = NoPend],
                                         proc[p].pend.cont, proc[p].pend.exit)]
    /\ UNCHANGED <<callArgs, callResult, sendArgs, sendResult, config, db, log, now, runs>>

\* the create_log of update_report_schedule_and_log, when it is a step of
\* its own
CreateLog(p) ==
    /\ proc[p].pc = "create_log"
    /\ log' = Append(log, create_log(proc[p], proc[p].pend.error_message, now))
    /\ proc' = [proc EXCEPT ![p] = After([proc[p] EXCEPT !.pend = NoPend],
                                         proc[p].pend.cont, proc[p].pend.exit)]
    /\ UNCHANGED <<callArgs, callResult, sendArgs, sendResult, config, db, now, runs>>

(***************************************************************************)
(* Collaborators                                                           *)
(***************************************************************************)
\* AlertCommand(...).run(): triggered, not triggered, or it raises
AlertOutcomes == {"triggered", "not triggered", AlertQueryError}

\* what _get_notification_content does: it returns a content, or a rendering
\* collaborator fails or runs into the soft time limit
RenderOutcomes ==
    {"rendered", ReportScheduleScreenshotFailedError,
     ReportScheduleScreenshotTimeout, Exception}

\* the schedule object after AlertCommand.run() computed the value of this run
AlertCommand(r, outcome) ==
    IF outcome = AlertQueryError THEN r.model
    ELSE [r.model EXCEPT !.last_value = r.uuid]

\* send(): _get_notification_content, then _send to the recipients
send(render, status) ==
    IF render # "rendered"
    THEN [attempted |-> <<>>, transmitted |-> <<>>, errors |-> <<>>,
          raised |-> render]
    ELSE _send(Recipients, status, config.dry_run)

\* send_error(name, message): _send to one e-mail recipient per owner
send_error(status) == _send(OwnerRecipients, status, config.dry_run)

\* the message logged for first_ex by ReportNotTriggeredErrorState.next
FirstErrorMessage(ex) ==
    IF ex \in SupersetErrorsException THEN JoinedMessages(ex) ELSE Str(ex)

(***************************************************************************)
(* BaseReportState._get_notification_content and the getters it calls.     *)
(* a is the schedule and what its collaborators do in this run:            *)
(*   type, report_format, chart (the target is a chart, else a dashboard), *)
(*   attach (ALERTS_ATTACH_REPORTS), query_context (the chart, or the      *)
(*   slices of the dashboard, have a stored query context), executor (the  *)
(*   user of get_executor), screenshot and data (the outcome of the        *)
(*   screenshot collaborator and of the data collaborator of the format)   *)
(***************************************************************************)
\* what a collaborator does: it returns a payload, returns nothing, runs into
\* the soft time limit of the task or raises anything else
PAYLOAD == "payload"
EMPTY == "empty"
CollaboratorOutcomes == {PAYLOAD, EMPTY, SoftTimeLimitExceeded, Exception}

\* the users get_executor can return for a schedule
ADMIN == "admin"
OWNER == "owner"
Executors == {ADMIN, OWNER}

\* one call of a collaborator and the identity it is made with
Call(collaborator, identity) ==
    [collaborator |-> collaborator, identity |-> identity]

\* what a getter did: the calls it made, the exception it raised, its value
Got(calls, raised, value) ==
    [calls |-> calls, raised |-> raised, value |-> value]

\* the exception of a try block around a collaborator with the outcome o
TryCollaborator(o, timeout, failed, empty) ==
    CASE o = SoftTimeLimitExceeded -> timeout
      [] o = Exception -> failed
      [] o = EMPTY -> empty
      [] OTHER -> NoException

\* _get_screenshots as if the empty image did not raise
_get_screenshots_EmptyList(a) ==
    LET raised == TryCollaborator(a.screenshot, ReportScheduleScreenshotTimeout,
                                  ReportScheduleScreenshotFailedError,
                                  NoException)
    IN  Got(<<Call("screenshot", a.executor)>>, raised,
            IF a.screenshot = PAYLOAD THEN PAYLOAD ELSE EMPTY)

\* _get_screenshots: get_executor, then the screenshot of the chart or of the
\* dashboard as that user
_get_screenshots(a) ==
    LET raised == TryCollaborator(a.screenshot, ReportScheduleScreenshotTimeout,
                                  ReportScheduleScreenshotFailedError,
                                  ReportScheduleScreenshotFailedError)
    IN  Got(<<Call("screenshot", a.executor)>>, raised,
            IF raised = NoException THEN PAYLOAD ELSE EMPTY)

\* _update_query_context: a screenshot of the chart makes the front end save
\* the query context; its two errors are raised again as a CSV failure
_update_query_context(a) ==
    LET shot == _get_screenshots(a)
    IN  IF shot.raised \in {ReportScheduleScreenshotFailedError,
                            ReportScheduleScreenshotTimeout}
        THEN Got(shot.calls, ReportScheduleCsvFailedError, EMPTY)
        ELSE Got(shot.calls, shot.raised, EMPTY)

\* the common shape of get_pdf_data, _get_csv_data and _get_embedded_data:
\* get_executor; refresh a missing query context; the collaborator in a try
ChartGetter(a, collaborator, timeout, failed, empty) ==
    LET refresh == IF a.query_context THEN Got(<<>>, NoException, EMPTY)
                   ELSE _update_query_context(a)
        raised == TryCollaborator(a.data, timeout, failed, empty)
    IN  IF refresh.raised # NoException THEN refresh
        ELSE Got(refresh.calls \o <<Call(collaborator, a.executor)>>, raised,
                 IF raised = NoException THEN PAYLOAD ELSE EMPTY)

\* get_pdf_data: get_chart_dataframe and pdf.df_to_pdf
get_pdf_data(a) ==
    ChartGetter(a, "chart document", ReportSchedulePdfTimeout,
                ReportSchedulePdfFailedError, ReportSchedulePdfFailedError)

\* _get_csv_data: get_chart_csv_data
_get_csv_data(a) ==
    ChartGetter(a, "csv", ReportScheduleCsvTimeout,
                ReportScheduleCsvFailedError, ReportScheduleCsvFailedError)

\* _get_embedded_data: get_chart_dataframe
_get_embedded_data(a) ==
    ChartGetter(a, "embedded data", ReportScheduleDataFrameTimeout,
                ReportScheduleDataFrameFailedError,
                ReportScheduleCsvFailedError)

\* get_pdf_image: the dashboard of the schedule (None for a chart target),
\* getAllTables runs the query of every slice that has a query context, with
\* no try around it, then DashboardChartScreenshot('admin', ...).get3(), a
\* method the class does not have
get_pdf_image(a) ==
    LET queries == IF a.query_context
                   THEN <<Call("query", a.executor)>> ELSE <<>>
    IN  IF a.chart THEN Got(<<>>, Exception, EMPTY)
        ELSE IF a.query_context /\ a.data \in {SoftTimeLimitExceeded, Exception}
        THEN Got(queries, a.data, EMPTY)
        ELSE Got(queries \o <<Call("dashboard document", ADMIN)>>,
                 Exception, EMPTY)

\* the texts of a content built without its payload
MissingArtifactTexts ==
    {"Unexpected missing screenshot", "Unexpected missing PDF file",
     "Unexpected missing csv file"}

\* what _get_notification_content did: the calls, the exception, and the
\* fields of the NotificationContent it returned
Content(calls, raised, text, screenshots, data, embedded_data) ==
    [calls |-> calls, raised |-> raised, text |-> text,
     screenshots |-> screenshots, data |-> data,
     embedded_data |-> embedded_data]

\* the payload of the report format: which getter runs, the field it fills
\* and the text of the content when the getter returns nothing
\* as FormatPayload, without the test of ALERTS_ATTACH_REPORTS and of the type
FormatPayload_Unguarded(a) ==
    CASE a.report_format = VISUALIZATION ->
             [got |-> _get_screenshots(a), field |-> "screenshots",
              text |-> "Unexpected missing screenshot"]
      [] a.report_format = PDF ->
             [got |-> IF a.chart THEN get_pdf_data(a) ELSE get_pdf_image(a),
              field |-> "data", text |-> "Unexpected missing PDF file"]
      [] a.report_format = DASHBOARD_PDF ->
             [got |-> get_pdf_image(a), field |-> "data",
              text |-> "Unexpected missing PDF file"]
      [] a.chart /\ a.report_format = DATA ->
             [got |-> _get_csv_data(a), field |-> "data",
              text |-> "Unexpected missing csv file"]
      [] OTHER ->
             [got |-> Got(<<>>, NoException, EMPTY), field |-> None,
              text |-> None]

FormatPayload(a) ==
    IF ~(a.attach \/ a.type = REPORT)
    THEN [got |-> Got(<<>>, NoException, EMPTY), field |-> None, text |-> None]
    ELSE CASE a.report_format = VISUALIZATION ->
                [got |-> _get_screenshots(a), field |-> "screenshots",
                 text |-> "Unexpected missing screenshot"]
           [] a.report_format = PDF ->
                [got |-> IF a.chart THEN get_pdf_data(a) ELSE get_pdf_image(a),
                 field |-> "data", text |-> "Unexpected missing PDF file"]
           [] a.report_format = DASHBOARD_PDF ->
                [got |-> get_pdf_image(a), field |-> "data",
                 text |-> "Unexpected missing PDF file"]
           [] a.chart /\ a.report_format = DATA ->
                [got |-> _get_csv_data(a), field |-> "data",
                 text |-> "Unexpected missing csv file"]
           [] OTHER ->
                [got |-> Got(<<>>, NoException, EMPTY), field |-> None,
                 text |-> None]

\* _get_notification_content as if the embedded data were built for every
\* chart, whatever the format
_get_notification_content_AlwaysEmbed(a) ==
    LET f == FormatPayload(a)
        e == _get_embedded_data(a)
    IN  Content(f.got.calls \o e.calls, NoException, None,
                IF f.field = "screenshots" THEN f.got.value ELSE EMPTY,
                IF f.field = "data" THEN f.got.value ELSE EMPTY,
                PAYLOAD)

\* _get_notification_content
_get_notification_content(a) ==
    LET f == FormatPayload(a)
        e == IF a.chart /\ a.report_format = TEXT THEN _get_embedded_data(a)
             ELSE Got(<<>>, NoException, EMPTY)
    IN  IF f.got.raised # NoException
        THEN Content(f.got.calls, f.got.raised, None, EMPTY, EMPTY, EMPTY)
        ELSE IF f.field # None /\ f.got.value = EMPTY
        THEN Content(f.got.calls, NoException, f.text, EMPTY, EMPTY, EMPTY)
        ELSE IF e.raised # NoException
        THEN Content(f.got.calls \o e.calls, e.raised, None, EMPTY, EMPTY,
                     EMPTY)
        ELSE Content(f.got.calls \o e.calls, NoException, None,
                     IF f.field = "screenshots" THEN f.got.value ELSE EMPTY,
                     IF f.field = "data" THEN f.got.value ELSE EMPTY,
                     e.value)

\* the state the handler logs after send(): _get_notification_content, then
\* _send of the content it returned; any exception ends the run in ERROR
StateAfterSend(content) ==
    IF content.raised = NoException THEN SUCCESS ELSE ERROR

(***************************************************************************)
(* BaseReportState.getAllFilters, getAllTables and get_pdf_image on the    *)
(* layout of a dashboard (position_json): props[element] is a component    *)
(* with its type, the keys of its children in order, and its meta          *)
(***************************************************************************)
CHART == "CHART"
MARKDOWN == "MARKDOWN"
\* the component of the key ROOT_ID, and any other component that is laid out
\* through its children (GRID, ROW, COLUMN, TABS, TAB, HEADER, DIVIDER)
ROOT == "ROOT"
ROW == "ROW"
ROOT_ID == 1
\* the element None or '' (no component)
NoElement == 0

\* a sub-query of a query context that has no time_range entry
NoKey == "no key"
\* the time range a query context was stored with
STORED == "stored"
\* the query_context None of a slice that was saved without one
NoQueryContext == [queries |-> <<>>, time_range |-> None]
\* the dataframe None of a chart without data
NoData == [form_data |-> NoQueryContext, result_format |-> None]

FILTER_TIME == "filter_time"
FILTER_SELECT == "filter_select"

\* getAllFilters: one entry per native filter, in order; the value is '' when
\* the filter state of the default data mask has no value
getAllFilters(nativeFilters) ==
    [i \in 1..Len(nativeFilters) |->
        [type |-> "FILTER",
         filterId |-> nativeFilters[i].id,
         filterType |-> nativeFilters[i].filterType,
         value |-> IF nativeFilters[i].has_value
                   THEN nativeFilters[i].value ELSE ""]]

\* the filter loop as if the first time filter with a value won
RECURSIVE TimeFilters_FirstWins(_, _)
TimeFilters_FirstWins(form_data, filters) ==
    IF filters = <<>> THEN form_data
    ELSE LET filter == Head(filters)
         IN  IF filter.filterType = FILTER_TIME /\ filter.value # ""
             THEN [queries |->
                      [q \in 1..Len(form_data.queries) |->
                          IF form_data.queries[q] # NoKey
                          THEN filter.value ELSE NoKey],
                   time_range |-> filter.value]
             ELSE TimeFilters_FirstWins(form_data, Tail(filters))

\* the loop over the filters in getAllTables: a time filter whose value is not
\* '' is written to the sub-queries that have a time_range and to the
\* form data; form_data is (the time_range of each query, that of form_data)
RECURSIVE TimeFilters(_, _)
TimeFilters(form_data, filters) ==
    IF filters = <<>> THEN form_data
    ELSE LET filter == Head(filters)
             written ==
                 IF filter.filterType = FILTER_TIME /\ filter.value # ""
                 THEN [queries |->
                          [q \in 1..Len(form_data.queries) |->
                              IF form_data.queries[q] # NoKey
                              THEN filter.value ELSE NoKey],
                       time_range |-> filter.value]
                 ELSE form_data
         IN  TimeFilters(written, Tail(filters))

\* the loop over the slices: the data of the query of the slices of the chart
\* that have a query context, run with the form data the filters wrote to
\* (the last one is kept); NoData without such a slice
RECURSIVE SliceData(_, _, _, _)
SliceData(slices, filters, chartId, dataframe) ==
    IF slices = <<>> THEN dataframe
    ELSE LET slice == Head(slices)
         IN  SliceData(Tail(slices), filters, chartId,
                 IF slice.slice_id = chartId /\ slice.query_context # NoQueryContext
                 THEN [form_data |-> TimeFilters(slice.query_context, filters),
                       result_format |-> "pandas"]
                 ELSE dataframe)

\* getAllTables as if it listed the children of the element only
getAllTables_ChildrenOnly(props, slices, filters, element) ==
    LET children == props[element].children
        listed == SelectSeq(children,
                            LAMBDA c : props[c].type \in {CHART, MARKDOWN})
    IN  [i \in 1..Len(listed) |->
            [type |-> props[listed[i]].type, meta |-> props[listed[i]].meta,
             dataframe |-> NoData]]

\* getAllTables: a CHART gives one entry with its meta and the data of its
\* slice, a MARKDOWN one entry with its meta, and any other component the
\* entries of its children, in their order
RECURSIVE getAllTables(_, _, _, _)
RECURSIVE AllTablesOf(_, _, _, _)
getAllTables(props, slices, filters, element) ==
    IF element = NoElement THEN <<>>
    ELSE LET childrenElement == props[element]
         IN  IF childrenElement.type = CHART
             THEN <<[type |-> CHART, meta |-> childrenElement.meta,
                     dataframe |-> SliceData(slices, filters,
                                             childrenElement.meta, NoData)]>>
             ELSE IF childrenElement.type = MARKDOWN
             THEN <<[type |-> MARKDOWN, meta |-> childrenElement.meta,
                     dataframe |-> NoData]>>
             ELSE AllTablesOf(props, slices, filters,
                              childrenElement.children)

\* the loop over the children of a component
AllTablesOf(props, slices, filters, children) ==
    IF children = <<>> THEN <<>>
    ELSE getAllTables(props, slices, filters, Head(children))
             \o AllTablesOf(props, slices, filters, Tail(children))

\* get_pdf_image up to the call of the screenshot class: the entries of the
\* dashboard, of its native filters and of its layout
formData(dashboardId, native_filter_configuration, position_json, slices) ==
    LET filters == getAllFilters(native_filter_configuration)
    IN  <<[type |-> "DASHBOARD", dashboardId |-> dashboardId]>>
            \o filters
            \o getAllTables(position_json, slices, filters, ROOT_ID)

(***************************************************************************)
(* BaseReportState.send_error on a schedule with its owners and its        *)
(* configured recipients                                                   *)
(***************************************************************************)
\* ReportRecipientType
EMAIL == "Email"
SLACK == "Slack"

\* NotificationContent(name=name, text=message, header_data=header_data): the
\* fields that are not given keep their defaults
notification_content(name, message) ==
    [name |-> name, text |-> message, screenshots |-> EMPTY, data |-> EMPTY,
     embedded_data |-> EMPTY]

\* the recipients of send_error as if they were the configured ones
owner_recipients_Configured(schedule) == schedule.recipients

\* one e-mail recipient per owner of the schedule, to the owner's address
owner_recipients(schedule) ==
    [i \in 1..Len(schedule.owners) |->
        [type |-> EMAIL, target |-> schedule.owners[i]]]

(***************************************************************************)
(* AsyncExecuteReportScheduleCommand.run + ReportScheduleStateMachine.run  *)
(***************************************************************************)
\* the state fields when the query of validate finds no row
NoSchedule ==
    [last_state |-> "no row", last_eval_dttm |-> NoneNum,
     last_value |-> NoneNum]

\* as validate, without the test of the row that was found
validate_NoTest(uuid) ==
    LET state_cls == SelectState(states_cls, db.last_state)
        r == [IdleProc EXCEPT !.uuid = uuid,
                              !.model = db,
                              !.loaded_state = db.last_state,
                              !.handler = state_cls]
    IN IF state_cls = NoHandler
       THEN Finish(r, ReportScheduleStateNotFoundError)
       ELSE [r EXCEPT !.pc = EntryOf(state_cls)]

\* the invocation with execution id uuid after validate and the construction
\* of the state class: validate loads the schedule row and raises when there
\* is none, the driver selects the state class by the loaded last_state
validate(uuid) ==
    IF db = NoSchedule
    THEN Finish([IdleProc EXCEPT !.uuid = uuid], ReportScheduleNotFoundError)
    ELSE LET state_cls == SelectState(states_cls, db.last_state)
             r == [IdleProc EXCEPT !.uuid = uuid,
                                   !.model = db,
                                   !.loaded_state = db.last_state,
                                   !.handler = state_cls]
         IN IF state_cls = NoHandler
            THEN Finish(r, ReportScheduleStateNotFoundError)
            ELSE [r EXCEPT !.pc = EntryOf(state_cls)]

\* an invocation starts while the other may be running; each of the two
\* runs once
InvokeOverlap(p) ==
    /\ proc[p].pc = "idle"
    /\ runs' = runs + 1
    /\ proc' = [proc EXCEPT ![p] = validate(runs + 1)]
    /\ UNCHANGED <<callArgs, callResult, sendArgs, sendResult, config, db, log, now>>

\* an invocation starts
Invoke(p) ==
    /\ proc[p].pc \in {"idle", "done"}
    /\ \A q \in DOMAIN proc : ~Running(q)
    /\ runs < MaxRuns
    /\ runs' = runs + 1
    /\ proc' = [proc EXCEPT ![p] = validate(runs + 1)]
    /\ UNCHANGED <<callArgs, callResult, sendArgs, sendResult, config, db, log, now>>

(***************************************************************************)
(* ReportNotTriggeredErrorState.next                                       *)
(***************************************************************************)
\* as NotTriggeredExcept, but the error is written into the last row of the
\* log in place of a new row
NotTriggeredExcept_Overwrite(p, r, first_ex) ==
    LET model == update_report_schedule(r.model, ERROR, now)
        updated == [r EXCEPT !.first_ex = first_ex, !.model = model,
                             !.updates = @ + 1]
    IN /\ db' = model
       /\ log' = [log EXCEPT ![Len(log)] =
                     create_log(updated, FirstErrorMessage(first_ex), now)]
       /\ proc' = [proc EXCEPT ![p] = After(updated, "nte_notify", "none")]

\* the except clause up to the error grace check: the ERROR transition
NotTriggeredExcept(p, r, first_ex) ==
    update_report_schedule_and_log(p, [r EXCEPT !.first_ex = first_ex], ERROR,
                                   FirstErrorMessage(first_ex),
                                   "nte_notify", "none")

\* as NotTriggeredNext, without the WORKING transition
NotTriggeredNext_NoMark(p) ==
    /\ proc[p].pc = "nte_next"
    /\ proc' = [proc EXCEPT ![p].pc = "nte_alert"]
    /\ UNCHANGED <<callArgs, callResult, sendArgs, sendResult, config, db, log, now, runs>>

NotTriggeredNext(p) ==
    /\ proc[p].pc = "nte_next"
    /\ update_report_schedule_and_log(p, proc[p], WORKING, None,
                                      "nte_alert", "none")
    /\ UNCHANGED <<callArgs, callResult, sendArgs, sendResult, config, now, runs>>

\* as NotTriggeredAlert, but an alert that is not triggered goes on to send()
NotTriggeredAlert_NoReturn(p) ==
    /\ proc[p].pc = "nte_alert"
    /\ IF config.type = ALERT
       THEN \E outcome \in AlertOutcomes :
              LET r == [proc[p] EXCEPT !.evals = @ + 1, !.trigger = outcome,
                                       !.model = AlertCommand(proc[p], outcome)]
              IN IF outcome \in {"triggered", "not triggered"}
                 THEN /\ proc' = [proc EXCEPT ![p] = [r EXCEPT !.pc = "nte_send"]]
                      /\ UNCHANGED <<db, log>>
                 ELSE NotTriggeredExcept(p, r, outcome)
       ELSE /\ proc' = [proc EXCEPT ![p].pc = "nte_send"]
            /\ UNCHANGED <<db, log>>
    /\ UNCHANGED <<callArgs, callResult, sendArgs, sendResult, config, now, runs>>

\* as NotTriggeredAlert, but the command is run for every type of schedule
NotTriggeredAlert_AnyType(p) ==
    /\ proc[p].pc = "nte_alert"
    /\ \E outcome \in AlertOutcomes :
         LET r == [proc[p] EXCEPT !.evals = @ + 1, !.trigger = outcome,
                                  !.model = AlertCommand(proc[p], outcome)]
         IN CASE outcome = "not triggered" ->
                   update_report_schedule_and_log(p, r, NOOP, None,
                                                  "done", "returned")
              [] outcome = "triggered" ->
                   /\ proc' = [proc EXCEPT ![p] = [r EXCEPT !.pc = "nte_send"]]
                   /\ UNCHANGED <<db, log>>
              [] OTHER -> NotTriggeredExcept(p, r, outcome)
    /\ UNCHANGED <<callArgs, callResult, sendArgs, sendResult, config, now, runs>>

NotTriggeredAlert(p) ==
    /\ proc[p].pc = "nte_alert"
    /\ IF config.type = ALERT
       THEN \E outcome \in AlertOutcomes :
              LET r == [proc[p] EXCEPT !.evals = @ + 1, !.trigger = outcome,
                                       !.model = AlertCommand(proc[p], outcome)]
              IN CASE outcome = "not triggered" ->
                        update_report_schedule_and_log(p, r, NOOP, None,
                                                       "done", "returned")
                   [] outcome = "triggered" ->
                        /\ proc' = [proc EXCEPT ![p] = [r EXCEPT !.pc = "nte_send"]]
                        /\ UNCHANGED <<db, log>>
                   [] OTHER -> NotTriggeredExcept(p, r, outcome)
       ELSE /\ proc' = [proc EXCEPT ![p].pc = "nte_send"]
            /\ UNCHANGED <<db, log>>
    /\ UNCHANGED <<callArgs, callResult, sendArgs, sendResult, config, now, runs>>

NotTriggeredSend(p) ==
    /\ proc[p].pc = "nte_send"
    /\ \E render \in RenderOutcomes, status \in [1..NumRecipients -> ChannelStatuses] :
         LET sending == send(render, status)
             r == [proc[p] EXCEPT !.renders = @ + 1,
                                  !.sent = @ \o sending.transmitted]
         IN IF sending.raised = NoException
            THEN update_report_schedule_and_log(p, r, SUCCESS, None,
                                                "done", "returned")
            ELSE NotTriggeredExcept(p, r, sending.raised)
    /\ UNCHANGED <<callArgs, callResult, sendArgs, sendResult, config, now, runs>>

\* as NotTriggeredNotify, but a failure of send_error is what next() raises
NotTriggeredNotify_RaiseSecond(p) ==
    /\ proc[p].pc = "nte_notify"
    /\ LET checked == [proc[p] EXCEPT !.checked_dttm = now]
       IN IF ~is_in_error_grace_period(log, now)
          THEN \E status \in [1..NumOwners -> ChannelStatuses] :
                 LET sending == send_error(status)
                     second_error_message ==
                         IF sending.raised = NoException
                         THEN REPORT_SCHEDULE_ERROR_NOTIFICATION_MARKER
                         ELSE JoinedMessages(sending.raised)
                     r == [checked EXCEPT !.error_calls = @ + 1,
                                          !.owner_sent = @ \o sending.transmitted,
                                          !.second_ex = sending.raised]
                 IN update_report_schedule_and_log(p, r, ERROR,
                        second_error_message, "done",
                        IF sending.raised = NoException
                        THEN proc[p].first_ex ELSE sending.raised)
          ELSE /\ proc' = [proc EXCEPT ![p] = Finish(checked, proc[p].first_ex)]
               /\ UNCHANGED <<db, log>>
    /\ UNCHANGED <<callArgs, callResult, sendArgs, sendResult, config, now, runs>>

\* as NotTriggeredNotify, without the transition that follows send_error
NotTriggeredNotify_NoRow(p) ==
    /\ proc[p].pc = "nte_notify"
    /\ LET checked == [proc[p] EXCEPT !.checked_dttm = now]
       IN IF ~is_in_error_grace_period(log, now)
          THEN \E status \in [1..NumOwners -> ChannelStatuses] :
                 LET sending == send_error(status)
                     r == [checked EXCEPT !.error_calls = @ + 1,
                                          !.owner_sent = @ \o sending.transmitted,
                                          !.second_ex = sending.raised]
                 IN /\ proc' = [proc EXCEPT ![p] = Finish(r, proc[p].first_ex)]
                    /\ UNCHANGED <<db, log>>
          ELSE /\ proc' = [proc EXCEPT ![p] = Finish(checked, proc[p].first_ex)]
               /\ UNCHANGED <<db, log>>
    /\ UNCHANGED <<callArgs, callResult, sendArgs, sendResult, config, now, runs>>

NotTriggeredNotify(p) ==
    /\ proc[p].pc = "nte_notify"
    /\ LET checked == [proc[p] EXCEPT !.checked_dttm = now]
       IN IF ~is_in_error_grace_period(log, now)
          THEN \E status \in [1..NumOwners -> ChannelStatuses] :
                 LET sending == send_error(status)
                     second_error_message ==
                         IF sending.raised = NoException
                         THEN REPORT_SCHEDULE_ERROR_NOTIFICATION_MARKER
                         ELSE JoinedMessages(sending.raised)
                     r == [checked EXCEPT !.error_calls = @ + 1,
                                          !.owner_sent = @ \o sending.transmitted,
                                          !.second_ex = sending.raised]
                 IN update_report_schedule_and_log(p, r, ERROR,
                        second_error_message, "done", proc[p].first_ex)
          ELSE /\ proc' = [proc EXCEPT ![p] = Finish(checked, proc[p].first_ex)]
               /\ UNCHANGED <<db, log>>
    /\ UNCHANGED <<callArgs, callResult, sendArgs, sendResult, config, now, runs>>

(***************************************************************************)
(* ReportWorkingState.next                                                 *)
(***************************************************************************)
\* as WorkingNext, but a reclaimed schedule is reported to the owners
WorkingNext_NotifyOwners(p) ==
    /\ proc[p].pc = "wrk_next"
    /\ LET checked == [proc[p] EXCEPT !.checked_dttm = now]
       IN IF is_on_working_timeout(log, now, proc[p].model)
          THEN \E status \in [1..NumOwners -> ChannelStatuses] :
                 LET sending == send_error(status)
                     r == [checked EXCEPT !.error_calls = @ + 1,
                                          !.owner_sent = @ \o sending.transmitted]
                 IN update_report_schedule_and_log(p, r, ERROR,
                        Str(ReportScheduleWorkingTimeoutError),
                        "done", ReportScheduleWorkingTimeoutError)
          ELSE update_report_schedule_and_log(p, checked, WORKING,
                   Str(ReportSchedulePreviousWorkingError),
                   "done", ReportSchedulePreviousWorkingError)
    /\ UNCHANGED <<callArgs, callResult, sendArgs, sendResult, config, now, runs>>

WorkingNext(p) ==
    /\ proc[p].pc = "wrk_next"
    /\ LET checked == [proc[p] EXCEPT !.checked_dttm = now]
       IN IF is_on_working_timeout(log, now, proc[p].model)
          THEN update_report_schedule_and_log(p, checked, ERROR,
                   Str(ReportScheduleWorkingTimeoutError),
                   "done", ReportScheduleWorkingTimeoutError)
          ELSE update_report_schedule_and_log(p, checked, WORKING,
                   Str(ReportSchedulePreviousWorkingError),
                   "done", ReportSchedulePreviousWorkingError)
    /\ UNCHANGED <<callArgs, callResult, sendArgs, sendResult, config, now, runs>>

(***************************************************************************)
(* ReportSuccessState.next                                                 *)
(***************************************************************************)
\* as SuccessNext, but the alert is evaluated without the WORKING transition
SuccessNext_NoMark(p) ==
    /\ proc[p].pc = "suc_next"
    /\ IF config.type = ALERT
       THEN LET checked == [proc[p] EXCEPT !.checked_dttm = now]
            IN IF is_in_grace_period(log, now)
               THEN update_report_schedule_and_log(p, checked, GRACE,
                        Str(ReportScheduleAlertGracePeriodError),
                        "done", "returned")
               ELSE /\ proc' = [proc EXCEPT ![p] =
                                   [checked EXCEPT !.pc = "suc_alert"]]
                    /\ UNCHANGED <<db, log>>
       ELSE /\ proc' = [proc EXCEPT ![p].pc = "suc_send"]
            /\ UNCHANGED <<db, log>>
    /\ UNCHANGED <<callArgs, callResult, sendArgs, sendResult, config, now, runs>>

SuccessNext(p) ==
    /\ proc[p].pc = "suc_next"
    /\ IF config.type = ALERT
       THEN LET checked == [proc[p] EXCEPT !.checked_dttm = now]
            IN IF is_in_grace_period(log, now)
               THEN update_report_schedule_and_log(p, checked, GRACE,
                        Str(ReportScheduleAlertGracePeriodError),
                        "done", "returned")
               ELSE update_report_schedule_and_log(p, checked, WORKING, None,
                        "suc_alert", "none")
       ELSE /\ proc' = [proc EXCEPT ![p].pc = "suc_send"]
            /\ UNCHANGED <<db, log>>
    /\ UNCHANGED <<callArgs, callResult, sendArgs, sendResult, config, now, runs>>

SuccessAlert(p) ==
    /\ proc[p].pc = "suc_alert"
    /\ \E outcome \in AlertOutcomes :
         LET r == [proc[p] EXCEPT !.evals = @ + 1, !.trigger = outcome,
                                  !.model = AlertCommand(proc[p], outcome)]
         IN CASE outcome = "not triggered" ->
                   update_report_schedule_and_log(p, r, NOOP, None,
                                                  "done", "returned")
              [] outcome = "triggered" ->
                   /\ proc' = [proc EXCEPT ![p] = [r EXCEPT !.pc = "suc_send"]]
                   /\ UNCHANGED <<db, log>>
              [] OTHER ->
                   \E status \in [1..NumOwners -> ChannelStatuses] :
                     LET sending == send_error(status)
                         e == [r EXCEPT !.first_ex = outcome,
                                        !.error_calls = @ + 1,
                                        !.owner_sent = @ \o sending.transmitted,
                                        !.second_ex = sending.raised]
                     IN IF sending.raised = NoException
                        THEN update_report_schedule_and_log(p, e, ERROR,
                                 REPORT_SCHEDULE_ERROR_NOTIFICATION_MARKER,
                                 "done", outcome)
                        ELSE /\ proc' = [proc EXCEPT ![p] =
                                            Finish(e, sending.raised)]
                             /\ UNCHANGED <<db, log>>
    /\ UNCHANGED <<callArgs, callResult, sendArgs, sendResult, config, now, runs>>

SuccessSend(p) ==
    /\ proc[p].pc = "suc_send"
    /\ \E render \in RenderOutcomes, status \in [1..NumRecipients -> ChannelStatuses] :
         LET sending == send(render, status)
             r == [proc[p] EXCEPT !.renders = @ + 1,
                                  !.sent = @ \o sending.transmitted]
         IN IF sending.raised = NoException
            THEN update_report_schedule_and_log(p, r, SUCCESS, None,
                                                "done", "returned")
            ELSE update_report_schedule_and_log(p,
                     [r EXCEPT !.first_ex = sending.raised], ERROR,
                     Str(sending.raised), "done", "returned")
    /\ UNCHANGED <<callArgs, callResult, sendArgs, sendResult, config, now, runs>>

(***************************************************************************)
(* The clock                                                               *)
(***************************************************************************)
Tick ==
    /\ now < MaxTime
    /\ now' = now + 1
    /\ UNCHANGED <<callArgs, callResult, sendArgs, sendResult, config, db, log, runs, proc>>

\* a long time passes at once: the clock goes from the start to the end of
\* the time that is looked at
Elapse ==
    /\ now = 0
    /\ now' = MaxTime
    /\ UNCHANGED <<callArgs, callResult, sendArgs, sendResult, config, db, log, runs, proc>>

(***************************************************************************)
(* Specification: invocations of one schedule, one at a time               *)
(***************************************************************************)
Configs ==
    [type : ReportScheduleType,
     grace_period : {NoneNum, GracePeriod},
     working_timeout : {NoneNum, WorkingTimeout},
     dry_run : BOOLEAN]

\* the schedule row as the management surface or an earlier deployment left
\* it; the log starts empty
InitialStates == ReportState \cup {None, UNKNOWN}

Init ==
    /\ sendArgs = NoArgs
    /\ sendResult = NotCalled
    /\ callArgs = NoCall
    /\ callResult = NoCall
    /\ config \in Configs
    /\ \E last_state \in InitialStates :
         db = [last_state |-> last_state,
               last_eval_dttm |-> IF last_state = None THEN NoneNum ELSE 0,
               last_value |-> NoneNum]
    /\ log = <<>>
    /\ now = 0
    /\ runs = 0
    /\ proc = [p \in Procs |-> IdleProc]

Step(p) ==
    \/ Invoke(p)
    \/ NotTriggeredNext(p)
    \/ NotTriggeredAlert(p)
    \/ NotTriggeredSend(p)
    \/ NotTriggeredNotify(p)
    \/ WorkingNext(p)
    \/ SuccessNext(p)
    \/ SuccessAlert(p)
    \/ SuccessSend(p)

Next == Tick \/ \E p \in Procs : Step(p)

Spec == Init /\ [][Next]_vars

(***************************************************************************)
(* Specification: the command on a schedule id whose row may be missing    *)
(***************************************************************************)
InitEntry ==
    /\ sendArgs = NoArgs
    /\ sendResult = NotCalled
    /\ callArgs = NoCall
    /\ callResult = NoCall
    /\ config \in Configs
    /\ \/ \E last_state \in InitialStates :
             db = [last_state |-> last_state,
                   last_eval_dttm |-> IF last_state = None THEN NoneNum ELSE 0,
                   last_value |-> NoneNum]
       \/ db = NoSchedule
    /\ log = <<>>
    /\ now = 0
    /\ runs = 0
    /\ proc = [p \in Procs |-> IdleProc]

SpecEntry == InitEntry /\ [][Next]_vars

(***************************************************************************)
(* Specification: invocations of one schedule whose grace period may be 0  *)
(***************************************************************************)
\* the schedules of Configs and those with a grace period of 0 seconds
GraceConfigs ==
    [type : ReportScheduleType,
     grace_period : {NoneNum, 0, GracePeriod},
     working_timeout : {NoneNum, WorkingTimeout},
     dry_run : BOOLEAN]

InitGrace ==
    /\ sendArgs = NoArgs
    /\ sendResult = NotCalled
    /\ callArgs = NoCall
    /\ callResult = NoCall
    /\ config \in GraceConfigs
    /\ \E last_state \in InitialStates :
         db = [last_state |-> last_state,
               last_eval_dttm |-> IF last_state = None THEN NoneNum ELSE 0,
               last_value |-> NoneNum]
    /\ log = <<>>
    /\ now = 0
    /\ runs = 0
    /\ proc = [p \in Procs |-> IdleProc]

SpecGrace == InitGrace /\ [][Next]_vars

(***************************************************************************)
(* Specification: two invocations of one schedule in any interleaving      *)
(***************************************************************************)
\* the configurations the overlap is looked at with: notifications are
\* transmitted and a grace period is set
OverlapConfigs ==
    {c \in Configs : ~c.dry_run /\ c.grace_period = GracePeriod}

\* the persisted states the two invocations start from: one for each state
\* class
OverlapStates == {NOOP, WORKING, SUCCESS}

InitOverlap ==
    /\ sendArgs = NoArgs
    /\ sendResult = NotCalled
    /\ callArgs = NoCall
    /\ callResult = NoCall
    /\ config \in OverlapConfigs
    /\ \E last_state \in OverlapStates :
         db = [last_state |-> last_state,
               last_eval_dttm |-> IF last_state = None THEN NoneNum ELSE 0,
               last_value |-> NoneNum]
    /\ log = <<>>
    /\ now = 0
    /\ runs = 0
    /\ proc = [p \in OverlapProcs |-> IdleProc]

StepOverlap(p) ==
    \/ InvokeOverlap(p)
    \/ CreateLog(p)
    \/ NotTriggeredNext(p)
    \/ NotTriggeredAlert(p)
    \/ NotTriggeredSend(p)
    \/ NotTriggeredNotify(p)
    \/ WorkingNext(p)
    \/ SuccessNext(p)
    \/ SuccessAlert(p)
    \/ SuccessSend(p)

NextOverlap == Elapse \/ \E p \in OverlapProcs : StepOverlap(p)

SpecOverlap == InitOverlap /\ [][NextOverlap]_vars

(***************************************************************************)
(* Specification: _send on its own, on every recipient list up to          *)
(* MaxRecipients and every outcome of the channels                         *)
(***************************************************************************)
CallSend ==
    /\ ~sendArgs.called
    /\ sendArgs' = [sendArgs EXCEPT !.called = TRUE]
    /\ sendResult' = _send(sendArgs.recipients, sendArgs.status, sendArgs.dry_run)
    /\ UNCHANGED <<callArgs, callResult, config, db, log, now, runs, proc>>

InitSend ==
    /\ sendArgs \in SendInputs
    /\ sendResult = NotCalled
    /\ callArgs = NoCall
    /\ callResult = NoCall
    /\ config = [type |-> REPORT, grace_period |-> NoneNum,
                 working_timeout |-> NoneNum, dry_run |-> sendArgs.dry_run]
    /\ db = [last_state |-> None, last_eval_dttm |-> NoneNum,
             last_value |-> NoneNum]
    /\ log = <<>>
    /\ now = 0
    /\ runs = 0
    /\ proc = [p \in Procs |-> IdleProc]

NextSend == CallSend

SpecSend == InitSend /\ [][NextSend]_vars

(***************************************************************************)
(* Specification: _get_notification_content on its own, on every schedule  *)
(* configuration and every outcome of its collaborators                    *)
(***************************************************************************)
ContentInputs ==
    [fn : {"_get_notification_content"}, called : {FALSE},
     type : ReportScheduleType, report_format : ReportDataFormat,
     chart : BOOLEAN, attach : BOOLEAN, query_context : BOOLEAN,
     executor : Executors, screenshot : CollaboratorOutcomes,
     data : CollaboratorOutcomes]

\* send() up to the content: the content built and the state the run ends in
CallContent ==
    /\ ~callArgs.called
    /\ callArgs.fn = "_get_notification_content"
    /\ callArgs' = [callArgs EXCEPT !.called = TRUE]
    /\ callResult' = [content |-> _get_notification_content(callArgs),
                      delivered |->
                          _get_notification_content(callArgs).raised
                              = NoException,
                      state |->
                          StateAfterSend(_get_notification_content(callArgs))]
    /\ UNCHANGED <<sendArgs, sendResult, config, db, log, now, runs, proc>>

InitContent ==
    /\ callArgs \in ContentInputs
    /\ callResult = NoCall
    /\ sendArgs = NoArgs
    /\ sendResult = NotCalled
    /\ config = [type |-> callArgs.type, grace_period |-> NoneNum,
                 working_timeout |-> NoneNum, dry_run |-> FALSE]
    /\ db = [last_state |-> None, last_eval_dttm |-> NoneNum,
             last_value |-> NoneNum]
    /\ log = <<>>
    /\ now = 0
    /\ runs = 0
    /\ proc = [p \in Procs |-> IdleProc]

NextContent == CallContent

SpecContent == InitContent /\ [][NextContent]_vars

(***************************************************************************)
(* Specification: getAllTables and get_pdf_image on their own, on every    *)
(* layout of up to MaxNodes components, and on one chart with every query  *)
(* context of up to MaxQueries sub-queries and up to MaxFilters filters    *)
(***************************************************************************)
\* the elements of a set of numbers in increasing order
RECURSIVE Ascending(_)
Ascending(S) ==
    IF S = {} THEN <<>>
    ELSE LET least == CHOOSE x \in S : \A y \in S : x <= y
         IN  <<least>> \o Ascending(S \ {least})

Reverse(seq) == [i \in 1..Len(seq) |-> seq[Len(seq) + 1 - i]]

\* the layout of the components 1..n in which parent[c] holds c (0: no
\* component holds it), the children of a component in increasing or in
\* decreasing order of their keys
Layout(n, parent, type, decreasing) ==
    [c \in 1..n |->
        [type |-> type[c],
         meta |-> c,
         children |->
             LET keys == Ascending({d \in 2..n : parent[d] = c})
             IN  IF decreasing THEN Reverse(keys) ELSE keys]]

\* position_json: ROOT_ID is the root, a component is held by at most one
\* other, and charts and markdowns hold nothing
Layouts ==
    UNION {{Layout(n, parent, type, decreasing) :
               parent \in {f \in [1..n -> 0..n] :
                              /\ f[1] = 0
                              /\ \A c \in 2..n : f[c] < c},
               type \in {t \in [1..n -> {ROOT, ROW, CHART, MARKDOWN}] :
                            \A c \in 1..n : (t[c] = ROOT) <=> (c = ROOT_ID)},
               decreasing \in BOOLEAN} :
           n \in 1..MaxNodes}

TreeLayouts ==
    {props \in Layouts :
        \A c \in DOMAIN props :
            props[c].type \in {CHART, MARKDOWN} => props[c].children = <<>>}

\* the values of a native filter: none, null, and two time ranges
FilterValues == {"", None, "Last week", "Last year"}

Filters ==
    [type : {"FILTER"}, filterId : {1}, filterType : {FILTER_TIME, FILTER_SELECT},
     value : FilterValues]

FilterLists ==
    UNION {[1..n -> Filters] : n \in 0..MaxFilters}

NativeFilters ==
    [id : {1}, filterType : {FILTER_TIME}, has_value : BOOLEAN,
     value : {"Last week"}]

NativeFilterLists ==
    UNION {[1..n -> NativeFilters] : n \in 0..MaxFilters}

\* the stored query contexts: each sub-query with or without a time_range
QueryContexts ==
    UNION {[queries : [1..n -> {STORED, NoKey}], time_range : {STORED}] :
           n \in 0..MaxQueries}

\* the slices of the charts of a layout, all with or all without a query
\* context
SlicesOf(props, query_context) ==
    LET charts == Ascending({c \in DOMAIN props : props[c].type = CHART})
    IN  [i \in 1..Len(charts) |->
            [slice_id |-> props[charts[i]].meta,
             query_context |-> query_context]]

\* a dashboard of one chart
OneChart ==
    Layout(2, <<0, 1>>, <<ROOT, CHART>>, FALSE)

FullQueryContext == [queries |-> <<STORED>>, time_range |-> STORED]

TableInputs ==
    {[fn |-> "getAllTables", called |-> FALSE, props |-> props,
      slices |-> SlicesOf(props, qc), filters |-> <<>>] :
        props \in TreeLayouts, qc \in {NoQueryContext, FullQueryContext}}
    \cup
    {[fn |-> "getAllTables", called |-> FALSE, props |-> OneChart,
      slices |-> SlicesOf(OneChart, qc), filters |-> filters] :
        qc \in QueryContexts, filters \in FilterLists}

PdfImageInputs ==
    {[fn |-> "get_pdf_image", called |-> FALSE, props |-> props,
      slices |-> SlicesOf(props, NoQueryContext), filters |-> filters] :
        props \in TreeLayouts, filters \in NativeFilterLists}

CallTables ==
    /\ ~callArgs.called
    /\ callArgs.fn = "getAllTables"
    /\ callArgs' = [callArgs EXCEPT !.called = TRUE]
    /\ callResult' =
           [tables |-> getAllTables(callArgs.props, callArgs.slices,
                                    callArgs.filters, ROOT_ID)]
    /\ UNCHANGED <<sendArgs, sendResult, config, db, log, now, runs, proc>>

\* get_pdf_image of a dashboard whose slices have no query context
CallPdfImage ==
    /\ ~callArgs.called
    /\ callArgs.fn = "get_pdf_image"
    /\ callArgs' = [callArgs EXCEPT !.called = TRUE]
    /\ LET got == get_pdf_image([chart |-> FALSE, query_context |-> FALSE,
                                 data |-> PAYLOAD, executor |-> OWNER])
       IN  callResult' =
               [formData |-> formData(1, callArgs.filters, callArgs.props,
                                      callArgs.slices),
                raised |-> got.raised,
                document |-> got.value]
    /\ UNCHANGED <<sendArgs, sendResult, config, db, log, now, runs, proc>>

InitTables ==
    /\ callArgs \in TableInputs \cup PdfImageInputs
    /\ callResult = NoCall
    /\ sendArgs = NoArgs
    /\ sendResult = NotCalled
    /\ config = [type |-> REPORT, grace_period |-> NoneNum,
                 working_timeout |-> NoneNum, dry_run |-> FALSE]
    /\ db = [last_state |-> None, last_eval_dttm |-> NoneNum,
             last_value |-> NoneNum]
    /\ log = <<>>
    /\ now = 0
    /\ runs = 0
    /\ proc = [p \in Procs |-> IdleProc]

NextTables == CallTables \/ CallPdfImage

SpecTables == InitTables /\ [][NextTables]_vars

(***************************************************************************)
(* Specification: send_error on its own, on schedules of up to NumOwners   *)
(* owners and NumRecipients recipients and every outcome of the channels   *)
(***************************************************************************)
\* the addresses of owners, and of recipients who may or may not be owners
OwnerEmails == {"ann@org", "bob@org"}
RecipientTargets == {"ann@org", "team@org"}

ConfiguredRecipients == [type : {EMAIL, SLACK}, target : RecipientTargets]
AnyRecipients == ConfiguredRecipients \cup [type : {EMAIL}, target : OwnerEmails]

Schedules ==
    UNION {[owners : [1..n -> OwnerEmails],
            recipients : [1..m -> ConfiguredRecipients]] :
           n \in 0..NumOwners, m \in 0..NumRecipients}

SendErrorInputs ==
    [fn : {"send_error"}, called : {FALSE}, schedule : Schedules,
     message : {"str:ReportScheduleScreenshotTimeout"},
     status : [AnyRecipients -> ChannelStatuses], dry_run : BOOLEAN]

CallSendError ==
    /\ ~callArgs.called
    /\ callArgs.fn = "send_error"
    /\ callArgs' = [callArgs EXCEPT !.called = TRUE]
    /\ callResult' =
           [content |-> notification_content("name", callArgs.message),
            sending |-> _send(owner_recipients(callArgs.schedule),
                              callArgs.status, callArgs.dry_run)]
    /\ UNCHANGED <<sendArgs, sendResult, config, db, log, now, runs, proc>>

InitSendError ==
    /\ callArgs \in SendErrorInputs
    /\ callResult = NoCall
    /\ sendArgs = NoArgs
    /\ sendResult = NotCalled
    /\ config = [type |-> REPORT, grace_period |-> NoneNum,
                 working_timeout |-> NoneNum, dry_run |-> callArgs.dry_run]
    /\ db = [last_state |-> None, last_eval_dttm |-> NoneNum,
             last_value |-> NoneNum]
    /\ log = <<>>
    /\ now = 0
    /\ runs = 0
    /\ proc = [p \in Procs |-> IdleProc]

NextSendError == CallSendError

SpecSendError == InitSendError /\ [][NextSendError]_vars

(***************************************************************************)
(* BaseScreenshot (utils/screenshots.py): the thumbnail of a URL and the   *)
(* cache that keeps it                                                     *)
(***************************************************************************)
\* the class attributes window_size and thumb_size
DefaultWindowSize == "800x600"
DefaultThumbSize == "400x300"
WindowSizes == {DefaultWindowSize, DefaultThumbSize}

\* bytes: the image they hold and its size; None and b"" hold no image
Bytes(image, size) == [image |-> image, size |-> size]
NoBytes == Bytes(0, None)
EmptyBytes == Bytes(0, "empty")

\* truth value of an Optional[bytes]
HasBytes(payload) == payload.image # 0

\* what a method returns: BytesIO(payload), or the bytes or None as they are
BytesIO(payload) == [stream |-> TRUE, payload |-> payload]
Raw(payload) == [stream |-> FALSE, payload |-> payload]

\* raised by cache.set when cache is None
AttributeError == "AttributeError"

\* cache_key: the md5 of thumbnail_type, digest, "thumb" and the two sizes;
\* the type and the digest are those of the one object
cache_key(window_size, thumb_size) ==
    <<IF window_size = None THEN DefaultWindowSize ELSE window_size,
      IF thumb_size = None THEN DefaultThumbSize ELSE thumb_size>>

CacheKeys == WindowSizes \X WindowSizes

\* what driver.get_screenshot does: bytes of an image, b"", None, or raises
DriverOutcomes ==
    {[raised |-> NoException, value |-> Bytes(k, "screen")] : k \in 1..NumImages}
        \cup {[raised |-> NoException, value |-> EmptyBytes],
              [raised |-> NoException, value |-> NoBytes],
              [raised |-> Exception, value |-> NoBytes]}

\* what Image.open, crop, resize and save do in resize_image
ResizeOutcomes == {NoException, Exception}

\* get_screenshot: the screenshot of the URL in a window of the given size
get_screenshot(window_size, capture) ==
    IF HasBytes(capture.value) THEN Bytes(capture.value.image, window_size)
    ELSE capture.value

\* resize_image: the image cropped and resized to thumb_size
resize_image(img_bytes, thumb_size) == Bytes(img_bytes.image, thumb_size)

\* the cache and self.screenshot after a call, what the call returned or
\* raised, and its calls of the driver and of resize_image
Called(cache, screenshot, returned, raised, driver, resized) ==
    [cache |-> cache, screenshot |-> screenshot, returned |-> returned,
     raised |-> raised, driver |-> driver, resized |-> resized]

\* compute_and_cache: unless force is off and the thumbnail is cached, take
\* the screenshot, resize it when the two sizes differ, and cache.set the
\* payload when there is one; cache.set on None raises AttributeError
compute_and_cache(st, window_size, thumb_size, supplied, force, capture, resize) ==
    LET key == cache_key(window_size, thumb_size)
        resizing == /\ capture.raised = NoException
                    /\ HasBytes(capture.value)
                    /\ key[1] # key[2]
        shot == IF capture.raised = NoException
                THEN get_screenshot(key[1], capture) ELSE NoBytes
        screenshot == IF capture.raised = NoException THEN shot
                      ELSE st.screenshot
        payload == IF ~resizing THEN shot
                   ELSE IF resize = NoException
                   THEN resize_image(shot, key[2]) ELSE NoBytes
    IN  IF ~force /\ supplied /\ HasBytes(st.cache[key])
        THEN Called(st.cache, st.screenshot, Raw(NoBytes), NoException, 0, 0)
        ELSE IF HasBytes(payload) /\ ~supplied
        THEN Called(st.cache, screenshot, Raw(NoBytes), AttributeError, 1,
                    IF resizing THEN 1 ELSE 0)
        ELSE Called(IF HasBytes(payload)
                    THEN [st.cache EXCEPT ![key] = payload] ELSE st.cache,
                    screenshot, Raw(payload), NoException, 1,
                    IF resizing THEN 1 ELSE 0)

\* get: the cached payload when a cache is given and has one, else
\* compute_and_cache; BytesIO of the payload, or None when there is none
get(st, thumb_size, supplied, capture, resize) ==
    LET key == cache_key(DefaultWindowSize, thumb_size)
        cached == IF supplied THEN st.cache[key] ELSE NoBytes
        computed == compute_and_cache(st, None, thumb_size, supplied, TRUE,
                                      capture, resize)
    IN  IF HasBytes(cached)
        THEN Called(st.cache, st.screenshot, BytesIO(cached), NoException, 0, 0)
        ELSE IF computed.raised # NoException THEN computed
        ELSE IF HasBytes(computed.returned.payload)
        THEN [computed EXCEPT !.returned = BytesIO(computed.returned.payload)]
        ELSE [computed EXCEPT !.returned = Raw(NoBytes)]

(***************************************************************************)
(* Specification: calls of get and compute_and_cache on one screenshot     *)
(* object, with the thumbnail cache or with no cache                       *)
(***************************************************************************)
GetInputs ==
    [fn : {"get"}, window_size : {None},
     thumb_size : {None} \cup WindowSizes, cache : BOOLEAN, force : {TRUE},
     capture : DriverOutcomes, resize : ResizeOutcomes]

ComputeInputs ==
    [fn : {"compute_and_cache"}, window_size : {None} \cup WindowSizes,
     thumb_size : {None} \cup WindowSizes, cache : BOOLEAN, force : BOOLEAN,
     capture : DriverOutcomes, resize : ResizeOutcomes]

\* no call yet: an empty cache and no screenshot taken
NoThumbnailCall ==
    [fn |-> "none", window_size |-> None, thumb_size |-> None,
     cache |-> FALSE, force |-> FALSE,
     capture |-> [raised |-> NoException, value |-> NoBytes],
     resize |-> NoException]

InitCache ==
    /\ callArgs = NoThumbnailCall
    /\ callResult = Called([k \in CacheKeys |-> NoBytes], NoBytes,
                           Raw(NoBytes), NoException, 0, 0)
    /\ sendArgs = NoArgs
    /\ sendResult = NotCalled
    /\ config = [type |-> REPORT, grace_period |-> NoneNum,
                 working_timeout |-> NoneNum, dry_run |-> FALSE]
    /\ db = [last_state |-> None, last_eval_dttm |-> NoneNum,
             last_value |-> NoneNum]
    /\ log = <<>>
    /\ now = 0
    /\ runs = 0
    /\ proc = [p \in Procs |-> IdleProc]

CallGet ==
    /\ runs < MaxCalls
    /\ \E a \in GetInputs :
         /\ callArgs' = a
         /\ callResult' = get(callResult, a.thumb_size, a.cache, a.capture,
                              a.resize)
    /\ runs' = runs + 1
    /\ UNCHANGED <<sendArgs, sendResult, config, db, log, now, proc>>

CallComputeAndCache ==
    /\ runs < MaxCalls
    /\ \E a \in ComputeInputs :
         /\ callArgs' = a
         /\ callResult' = compute_and_cache(callResult, a.window_size,
                                            a.thumb_size, a.cache, a.force,
                                            a.capture, a.resize)
    /\ runs' = runs + 1
    /\ UNCHANGED <<sendArgs, sendResult, config, db, log, now, proc>>

NextCache == CallGet \/ CallComputeAndCache

SpecCache == InitCache /\ [][NextCache]_vars

(***************************************************************************)
(* Properties                                                              *)
(***************************************************************************)
\* invocation p went through a handler's next() and is out of it
Ended(p) == proc[p].pc = "done" /\ proc[p].handler # NoHandler

\* the log as it was when invocation p started: the rows of earlier runs
PriorRows(p) == SelectSeq(log, LAMBDA row : row.uuid # proc[p].uuid)

\* C1 as stated: every run through a handler appends exactly one log row and
\* updates the state fields exactly once.
C1_OneRowOneUpdate ==
    \A p \in Procs :
        Ended(p) => Len(RowsOf(p)) = 1 /\ proc[p].updates = 1

\* C1 as amended: every run through a handler appends one, two or three log
\* rows, and updates the state fields once per row it appends.
C1_RowPerTransition ==
    \A p \in Procs :
        Ended(p) => /\ Len(RowsOf(p)) \in 1..3
                    /\ proc[p].updates = Len(RowsOf(p))

\* a failed run of ReportNotTriggeredErrorState with an owner notification:
\* three rows
C1_Witness ==
    \E p \in Procs :
        /\ Ended(p)
        /\ Len(RowsOf(p)) = 3
        /\ proc[p].updates = 3
        /\ proc[p].error_calls = 1

\* the handler the driver is to select for a persisted state
HandlerOf(last_state) ==
    CASE last_state \in {None, NOOP, ERROR} -> ReportNotTriggeredErrorState
      [] last_state = WORKING -> ReportWorkingState
      [] last_state \in {SUCCESS, GRACE} -> ReportSuccessState
      [] OTHER -> NoHandler

\* the positions inside the next() of a handler
PositionsOf(state_cls) ==
    CASE state_cls = ReportNotTriggeredErrorState ->
             {"nte_next", "nte_alert", "nte_send", "nte_notify"}
      [] state_cls = ReportWorkingState -> {"wrk_next"}
      [] state_cls = ReportSuccessState -> {"suc_next", "suc_alert", "suc_send"}
      [] OTHER -> {}

\* C2: a call of the driver runs the next() of exactly one handler, the one
\* of the persisted state (NotTriggeredOrError for null, NOOP, ERROR; Working
\* for WORKING; SuccessOrGrace for SUCCESS, GRACE); it raises state-not-found
\* exactly when no handler matches, and then changes no schedule field and
\* appends no log row.
C2_OneHandlerPerState ==
    \A p \in Procs :
        proc[p].pc # "idle" =>
            /\ proc[p].handler = HandlerOf(proc[p].loaded_state)
            /\ Running(p) => proc[p].pc \in PositionsOf(proc[p].handler)
            /\ (proc[p].result = ReportScheduleStateNotFoundError)
                   <=> (proc[p].pc = "done" /\ proc[p].handler = NoHandler)
            /\ proc[p].handler = NoHandler =>
                   /\ RowsOf(p) = <<>>
                   /\ proc[p].updates = 0
                   /\ db.last_state = proc[p].loaded_state
                   /\ db = proc[p].model

\* a second call on a row whose state no handler matches
C2_Witness ==
    \E p \in Procs :
        /\ proc[p].pc = "done"
        /\ proc[p].uuid = 2
        /\ proc[p].loaded_state = UNKNOWN
        /\ proc[p].result = ReportScheduleStateNotFoundError

\* C3: an ALERT run of NotTriggeredOrError (persisted state null, NOOP or
\* ERROR) whose trigger evaluates false ends with persisted state NOOP,
\* returns normally, and sends nothing to recipients or owners.
C3_NotTriggeredToNoop ==
    \A p \in Procs :
        ( /\ proc[p].pc = "done"
          /\ proc[p].handler = ReportNotTriggeredErrorState
          /\ config.type = ALERT
          /\ proc[p].trigger = "not triggered" )
        => /\ db.last_state = NOOP
           /\ proc[p].result = "returned"
           /\ proc[p].renders = 0
           /\ proc[p].sent = <<>>
           /\ proc[p].error_calls = 0
           /\ proc[p].owner_sent = <<>>
           /\ Len(RowsOf(p)) = 2
           /\ RowsOf(p)[2].state = NOOP

C3_Witness ==
    \E p \in Procs :
        /\ proc[p].pc = "done"
        /\ proc[p].handler = ReportNotTriggeredErrorState
        /\ proc[p].loaded_state = NOOP
        /\ config.type = ALERT
        /\ ~config.dry_run
        /\ proc[p].trigger = "not triggered"
        /\ db.last_state = NOOP

\* position of the last row of rows that satisfies Test, 0 when none does
LastWhere(rows, Test(_)) ==
    LET found == {i \in 1..Len(rows) : Test(rows[i])}
    IN IF found = {} THEN 0 ELSE CHOOSE i \in found : \A j \in found : j <= i

\* position of the first row of rows that satisfies Test, 0 when none does
FirstWhere(rows, Test(_)) ==
    LET found == {i \in 1..Len(rows) : Test(rows[i])}
    IN IF found = {} THEN 0 ELSE CHOOSE i \in found : \A j \in found : i <= j

\* the row by which the schedule last entered WORKING before run p
EnteredWorking(p) ==
    LastWhere(PriorRows(p),
              LAMBDA row : row.state = WORKING /\ row.error_message = None)

\* seconds between that row and the timeout check of run p
WorkingFor(p) ==
    proc[p].checked_dttm - PriorRows(p)[EnteredWorking(p)].end_dttm

\* run p was handled by ReportWorkingState and a working time is defined
WorkingRun(p) ==
    /\ proc[p].pc = "done"
    /\ proc[p].handler = ReportWorkingState
    /\ config.working_timeout >= 0
    /\ EnteredWorking(p) # 0

\* C4: a run that finds the schedule WORKING for less than working_timeout
\* raises 'previous working', leaves the persisted state WORKING and logs
\* exactly one row, a WORKING row with the 'previous working' message.
C4_YieldBelowTimeout ==
    \A p \in Procs :
        (WorkingRun(p) /\ WorkingFor(p) < config.working_timeout)
        => /\ proc[p].result = ReportSchedulePreviousWorkingError
           /\ db.last_state = WORKING
           /\ Len(RowsOf(p)) = 1
           /\ RowsOf(p)[1].state = WORKING
           /\ RowsOf(p)[1].error_message =
                  "str:ReportSchedulePreviousWorkingError"

C4_Witness ==
    \E p \in Procs :
        /\ WorkingRun(p)
        /\ WorkingFor(p) < config.working_timeout
        /\ proc[p].result = ReportSchedulePreviousWorkingError

\* C5: a run that finds the schedule WORKING for more than working_timeout
\* sets the persisted state to ERROR, logs one ERROR row with the
\* working-timeout message and raises the working-timeout error.
C5_ErrorAboveTimeout ==
    \A p \in Procs :
        (WorkingRun(p) /\ WorkingFor(p) > config.working_timeout)
        => /\ proc[p].result = ReportScheduleWorkingTimeoutError
           /\ db.last_state = ERROR
           /\ Len(RowsOf(p)) = 1
           /\ RowsOf(p)[1].state = ERROR
           /\ RowsOf(p)[1].error_message =
                  "str:ReportScheduleWorkingTimeoutError"

C5_Witness ==
    \E p \in Procs :
        /\ WorkingRun(p)
        /\ WorkingFor(p) > config.working_timeout
        /\ db.last_state = ERROR

\* the last SUCCESS row before run p
LastSuccess(p) == LastWhere(PriorRows(p), LAMBDA row : row.state = SUCCESS)

\* run p is an ALERT run of ReportSuccessState that checked a grace window:
\* grace_period is set and a success row exists
GraceRun(p) ==
    /\ proc[p].pc = "done"
    /\ proc[p].handler = ReportSuccessState
    /\ config.type = ALERT
    /\ config.grace_period > 0
    /\ LastSuccess(p) # 0

\* seconds between the end of the last success and the grace check of run p
SinceSuccess(p) ==
    proc[p].checked_dttm - PriorRows(p)[LastSuccess(p)].end_dttm

\* C6: an ALERT run in SUCCESS or GRACE whose last success ended less than
\* grace_period seconds ago sets the persisted state to GRACE, evaluates no
\* trigger, renders nothing and sends nothing.
C6_GraceSuppresses ==
    \A p \in Procs :
        (GraceRun(p) /\ SinceSuccess(p) < config.grace_period)
        => /\ db.last_state = GRACE
           /\ proc[p].result = "returned"
           /\ proc[p].evals = 0
           /\ proc[p].renders = 0
           /\ proc[p].sent = <<>>
           /\ proc[p].error_calls = 0
           /\ proc[p].owner_sent = <<>>
           /\ Len(RowsOf(p)) = 1
           /\ RowsOf(p)[1].state = GRACE

C6_Witness ==
    \E p \in Procs :
        /\ GraceRun(p)
        /\ SinceSuccess(p) < config.grace_period
        /\ ~config.dry_run
        /\ db.last_state = GRACE

\* run p is an ALERT run that loaded SUCCESS outside the grace window
OutsideGrace(p) ==
    /\ proc[p].pc = "done"
    /\ proc[p].handler = ReportSuccessState
    /\ proc[p].loaded_state = SUCCESS
    /\ config.type = ALERT
    /\ ~(/\ config.grace_period > 0
         /\ LastSuccess(p) # 0
         /\ SinceSuccess(p) < config.grace_period)

\* C7 as stated: outside the grace window the run marks WORKING and
\* re-evaluates the trigger; triggered: it sends and ends in SUCCESS; not
\* triggered: it ends in NOOP and sends nothing.
C7_TriggeredEndsInSuccess ==
    \A p \in Procs :
        OutsideGrace(p)
        => /\ RowsOf(p)[1].state = WORKING
           /\ proc[p].evals = 1
           /\ proc[p].trigger = "triggered" =>
                  /\ proc[p].renders = 1
                  /\ db.last_state = SUCCESS
           /\ proc[p].trigger = "not triggered" =>
                  /\ db.last_state = NOOP
                  /\ proc[p].sent = <<>>

\* C7 as amended: outside the grace window the run marks WORKING and
\* re-evaluates the trigger; triggered: it renders and sends, and ends in
\* SUCCESS when rendering and sending succeed and in ERROR when they fail;
\* not triggered: it ends in NOOP and sends nothing.
C7_TriggeredSends ==
    \A p \in Procs :
        OutsideGrace(p)
        => /\ RowsOf(p)[1].state = WORKING
           /\ RowsOf(p)[1].error_message = None
           /\ proc[p].evals = 1
           /\ proc[p].trigger = "triggered" =>
                  /\ proc[p].renders = 1
                  /\ proc[p].result = "returned"
                  /\ db.last_state \in {SUCCESS, ERROR}
                  /\ db.last_state = SUCCESS <=> proc[p].first_ex = NoException
                  /\ (db.last_state = SUCCESS /\ ~config.dry_run) =>
                         proc[p].sent = Recipients
           /\ proc[p].trigger = "not triggered" =>
                  /\ db.last_state = NOOP
                  /\ proc[p].result = "returned"
                  /\ proc[p].renders = 0
                  /\ proc[p].sent = <<>>
                  /\ proc[p].owner_sent = <<>>

\* a success, then a run after the window has passed that sends again
C7_Witness ==
    \E p \in Procs :
        /\ OutsideGrace(p)
        /\ GraceRun(p)
        /\ SinceSuccess(p) >= config.grace_period
        /\ proc[p].trigger = "triggered"
        /\ proc[p].sent = Recipients
        /\ db.last_state = SUCCESS

\* exceptions and messages of a failure of send(): render or notify
SendFailures ==
    {ReportScheduleScreenshotFailedError, ReportScheduleScreenshotTimeout,
     ReportScheduleSystemErrorsException, ReportScheduleClientErrorsException}
SendFailureMessages ==
    {"str:ReportScheduleScreenshotFailedError",
     "str:ReportScheduleScreenshotTimeout",
     "errors:ReportScheduleSystemErrorsException",
     "errors:ReportScheduleClientErrorsException"}

\* the rows of the run before run p
PreviousRows(p) == SelectSeq(log, LAMBDA row : row.uuid = proc[p].uuid - 1)

FirstError(rows) == FirstWhere(rows, LAMBDA row : row.state = ERROR)

\* run p and the run before it both failed in render/notify
TwoFailures(p) ==
    /\ proc[p].pc = "done"
    /\ proc[p].handler = ReportNotTriggeredErrorState
    /\ proc[p].first_ex \in SendFailures
    /\ FirstError(PreviousRows(p)) # 0
    /\ PreviousRows(p)[FirstError(PreviousRows(p))].error_message
           \in SendFailureMessages
    /\ config.grace_period > 0

\* seconds between the two failures (the two first ERROR rows)
BetweenFailures(p) ==
    RowsOf(p)[FirstError(RowsOf(p))].end_dttm
        - PreviousRows(p)[FirstError(PreviousRows(p))].end_dttm

\* the row of the previous run that records a sent error notification
PreviousMarker(p) ==
    LastWhere(PreviousRows(p),
              LAMBDA row : row.error_message = "Notification sent with error")

\* C8 as stated: of two consecutive runs that fail in render/notify less than
\* grace_period seconds apart, the second does not call send_error.
C8_SecondFailureSilent ==
    \A p \in Procs :
        (TwoFailures(p) /\ BetweenFailures(p) < config.grace_period)
        => proc[p].error_calls = 0

\* C8 as amended: of two consecutive runs that fail in render/notify, when
\* the first logged the error-notification marker (its owner notification was
\* sent) and the second checks the error grace window less than grace_period
\* seconds after that row, the second does not call send_error.
C8_SilentAfterMarker ==
    \A p \in Procs :
        ( /\ TwoFailures(p)
          /\ PreviousMarker(p) # 0
          /\ proc[p].checked_dttm - PreviousRows(p)[PreviousMarker(p)].end_dttm
                 < config.grace_period )
        => /\ proc[p].error_calls = 0
           /\ proc[p].owner_sent = <<>>
           /\ Len(RowsOf(p)) = 2
           /\ proc[p].result = proc[p].first_ex

C8_Witness ==
    \E p \in Procs :
        /\ TwoFailures(p)
        /\ PreviousMarker(p) # 0
        /\ proc[p].checked_dttm - PreviousRows(p)[PreviousMarker(p)].end_dttm
               < config.grace_period
        /\ ~config.dry_run
        /\ proc[p].error_calls = 0

\* the recipients of the checked call whose notification failed
FailedRecipients ==
    IF sendArgs.dry_run THEN <<>>
    ELSE SelectSeq(sendArgs.recipients,
                   LAMBDA r : sendArgs.status[r] # 200)

\* C9: _send attempts every recipient of the list exactly once and in list
\* order, whatever the sends to the other recipients do; when dry-run is off
\* each of them is transmitted to.
C9_AllRecipientsAttempted ==
    sendArgs.called =>
        /\ sendResult.attempted = sendArgs.recipients
        /\ ~sendArgs.dry_run => sendResult.transmitted = sendArgs.recipients

\* three recipients, the second fails with a severe error, the third is
\* attempted all the same
C9_Witness ==
    /\ sendArgs.called
    /\ ~sendArgs.dry_run
    /\ Len(sendArgs.recipients) = 3
    /\ sendArgs.status = <<200, 500, 200>>
    /\ sendResult.transmitted = <<1, 2, 3>>

\* C10: after the loop _send raises the system aggregate when a collected
\* failure has status >= 500, else the client aggregate when a failure was
\* collected, else returns; the aggregate has one entry per failed recipient.
C10_AggregateBySeverity ==
    sendArgs.called =>
        /\ sendResult.raised =
             IF \E i \in 1..Len(FailedRecipients) :
                    sendArgs.status[FailedRecipients[i]] >= 500
             THEN ReportScheduleSystemErrorsException
             ELSE IF FailedRecipients # <<>>
                  THEN ReportScheduleClientErrorsException
                  ELSE NoException
        /\ Len(sendResult.errors) = Len(FailedRecipients)
        /\ \A i \in 1..Len(FailedRecipients) :
               sendResult.errors[i].recipient = FailedRecipients[i]

\* a client failure and a severe failure in one call: the system aggregate
\* with two entries
C10_Witness ==
    /\ sendArgs.called
    /\ sendArgs.status = <<400, 200, 500>>
    /\ sendResult.raised = ReportScheduleSystemErrorsException
    /\ Len(sendResult.errors) = 2

\* the message ReportNotTriggeredErrorState logs for a failure of send()
FailureMessage(ex) ==
    CASE ex = ReportScheduleScreenshotFailedError ->
             "str:ReportScheduleScreenshotFailedError"
      [] ex = ReportScheduleScreenshotTimeout ->
             "str:ReportScheduleScreenshotTimeout"
      [] ex = ReportScheduleSystemErrorsException ->
             "errors:ReportScheduleSystemErrorsException"
      [] ex = ReportScheduleClientErrorsException ->
             "errors:ReportScheduleClientErrorsException"
      [] ex = Exception -> "str:Exception"
      [] OTHER -> "no message"

\* run p went through ReportNotTriggeredErrorState and its send() failed:
\* content was asked for and the run logged an ERROR row
NotTriggeredSendFailed(p) ==
    /\ proc[p].pc = "done"
    /\ proc[p].handler = ReportNotTriggeredErrorState
    /\ proc[p].renders = 1
    /\ FirstError(RowsOf(p)) # 0

\* C11: when send() of ReportNotTriggeredErrorState fails with E, next()
\* raises E itself, the error logged first, whether the error notification
\* was suppressed by the error grace, was sent, or failed in its turn.
C11_FirstErrorReraised ==
    \A p \in Procs :
        NotTriggeredSendFailed(p) =>
            /\ proc[p].result \in SendFailures \cup {Exception}
            /\ RowsOf(p)[FirstError(RowsOf(p))].error_message =
                   FailureMessage(proc[p].result)

\* the rendering timed out, sending the error notification failed with a
\* severe error that went into the log, and the timeout is what is raised
C11_Witness ==
    \E p \in Procs :
        /\ NotTriggeredSendFailed(p)
        /\ Len(RowsOf(p)) = 3
        /\ RowsOf(p)[2].error_message = "str:ReportScheduleScreenshotTimeout"
        /\ RowsOf(p)[3].error_message =
               "errors:ReportScheduleSystemErrorsException"
        /\ proc[p].error_calls = 1
        /\ proc[p].result = ReportScheduleScreenshotTimeout

\* run p went through a handler and its send() failed with first_ex
SendFailed(p) ==
    /\ proc[p].pc = "done"
    /\ proc[p].handler # NoHandler
    /\ proc[p].renders = 1
    /\ proc[p].first_ex \in SendFailures

\* C12: in every handler a failure of send(), a rendering timeout included,
\* is recorded as an ERROR transition with a log row and is then raised to the
\* caller; no handler returns normally after it.
C12_FailureLoggedAndReraised ==
    \A p \in Procs :
        SendFailed(p) =>
            /\ FirstError(RowsOf(p)) # 0
            /\ db.last_state = ERROR
            /\ proc[p].result = proc[p].first_ex

\* C13: every WORKING row of the log carries a null value, and every ERROR
\* row carries null or the value computed by the run that wrote it, never
\* the value of an earlier run.
C13_NoStaleValue ==
    \A i \in 1..Len(log) :
        /\ log[i].state = WORKING => log[i].value = NoneNum
        /\ log[i].state = ERROR => log[i].value \in {NoneNum, log[i].uuid}

\* the first run computed a value and persisted it; the second run cleared
\* it on entering WORKING and logged its own value with its error
C13_Witness ==
    \E i, j, k \in 1..Len(log) :
        /\ i < j /\ j < k
        /\ log[i].uuid = 1 /\ log[i].value = 1
        /\ db.last_value = 2
        /\ log[j].uuid = 2 /\ log[j].state = WORKING
        /\ log[j].value = NoneNum
        /\ log[k].uuid = 2 /\ log[k].state = ERROR /\ log[k].value = 2

\* invocation p loaded the schedule with persisted state WORKING
ObservedWorking(p) ==
    proc[p].pc # "idle" /\ proc[p].loaded_state = WORKING

\* C15: an invocation that observes persisted state WORKING never evaluates
\* the alert trigger, never renders content and never sends a notification,
\* to recipients or to owners, whether it yields or reclaims the schedule.
C15_WorkingDoesNoWork ==
    \A p \in Procs :
        ObservedWorking(p) =>
            /\ proc[p].evals = 0
            /\ proc[p].trigger = "none"
            /\ proc[p].renders = 0
            /\ proc[p].sent = <<>>
            /\ proc[p].error_calls = 0
            /\ proc[p].owner_sent = <<>>

\* a run that observed WORKING reclaimed the schedule: it logged ERROR and
\* raised the working timeout
C15_Witness ==
    \E p \in Procs :
        /\ ObservedWorking(p)
        /\ proc[p].pc = "done"
        /\ proc[p].result = ReportScheduleWorkingTimeoutError
        /\ db.last_state = ERROR
        /\ Len(RowsOf(p)) = 1

\* the last SUCCESS row of the log, 0 when there is none
LastSuccessRow == LastWhere(log, LAMBDA row : row.state = SUCCESS)

\* the clock is inside the grace window of the last run that ended in SUCCESS
InGraceWindow ==
    /\ config.type = ALERT
    /\ config.grace_period > 0
    /\ LastSuccessRow # 0
    /\ now - log[LastSuccessRow].end_dttm < config.grace_period

\* C18: for an ALERT schedule run by one invocation at a time, from the end
\* of a run that ended in SUCCESS until grace_period seconds after it the
\* persisted state is SUCCESS or GRACE and no later invocation renders or
\* sends a notification to the recipients.
C18_QuietInGraceWindow ==
    InGraceWindow =>
        /\ db.last_state \in {SUCCESS, GRACE}
        /\ \A i \in 1..Len(log) :
               i > LastSuccessRow => log[i].state = GRACE
        /\ \A p \in Procs :
               proc[p].uuid > log[LastSuccessRow].uuid =>
                   /\ proc[p].renders = 0
                   /\ proc[p].sent = <<>>

\* a run ended in SUCCESS having notified the recipients, and the next run,
\* inside the window, ended in GRACE
C18_Witness ==
    \E p \in Procs :
        /\ InGraceWindow
        /\ proc[p].pc = "done"
        /\ proc[p].uuid = log[LastSuccessRow].uuid + 1
        /\ db.last_state = GRACE
        /\ log[Len(log)].state = GRACE
        /\ log[Len(log)].uuid = proc[p].uuid

\* C19: the execution log is append-only: every step leaves the rows that
\* exist in place and unchanged, and a step that changes the log adds one
\* row, written by a running handler together with one update of the state.
C19_LogAppendOnly ==
    [][/\ Len(log') >= Len(log)
       /\ SubSeq(log', 1, Len(log)) = log
       /\ log' # log =>
             /\ Len(log') = Len(log) + 1
             /\ \E p \in Procs :
                   /\ Running(p)
                   /\ proc[p].handler # NoHandler
                   /\ proc'[p].updates = proc[p].updates + 1
                   /\ log'[Len(log')].uuid = proc[p].uuid]_vars

\* two runs left five rows: three of a failed run with its error
\* notification, two of the run after it
C19_Witness ==
    /\ Len(log) = 5
    /\ log[3].uuid = 1 /\ log[3].state = ERROR
    /\ log[4].uuid = 2 /\ log[4].state = WORKING
    /\ log[5].uuid = 2

\* when the schedule entered WORKING before run p: the end of the row by
\* which it did, or the start of the history when the log has no such row
WorkingSince(p) ==
    IF EnteredWorking(p) # 0
    THEN PriorRows(p)[EnteredWorking(p)].end_dttm
    ELSE 0

\* run p found the schedule WORKING and checked it more than working_timeout
\* seconds after WORKING was entered
ArrivedAfterTimeout(p) ==
    /\ proc[p].pc = "done"
    /\ ObservedWorking(p)
    /\ config.working_timeout >= 0
    /\ proc[p].checked_dttm - WorkingSince(p) > config.working_timeout

\* C17 as stated: a schedule left in WORKING is forced to ERROR by the
\* invocation that arrives after working_timeout has elapsed since WORKING
\* was entered, whether or not the log holds a WORKING row.
C17_ReclaimedAfterTimeout ==
    \A p \in Procs :
        ArrivedAfterTimeout(p) => db.last_state = ERROR

\* C17, amended: an invocation that finds the schedule WORKING forces ERROR
\* when working_timeout is set, the log holds a row by which WORKING was
\* entered and more than working_timeout seconds passed since that row;
\* with working_timeout unset or without such a row it leaves the schedule
\* in WORKING, however late it arrives.
C17_ReclaimedOnlyWithTimeoutAndRow ==
    \A p \in Procs :
        (proc[p].pc = "done" /\ ObservedWorking(p)) =>
            /\ (ArrivedAfterTimeout(p) /\ EnteredWorking(p) # 0) =>
                   /\ db.last_state = ERROR
                   /\ proc[p].result = ReportScheduleWorkingTimeoutError
            /\ (config.working_timeout < 0 \/ EnteredWorking(p) = 0) =>
                   /\ db.last_state = WORKING
                   /\ proc[p].result = ReportSchedulePreviousWorkingError

\* working_timeout is unset, the log holds the row by which WORKING was
\* entered, and a run arriving two seconds later leaves the schedule WORKING
C17_Witness ==
    \E p \in Procs :
        /\ proc[p].pc = "done"
        /\ ObservedWorking(p)
        /\ config.working_timeout < 0
        /\ EnteredWorking(p) # 0
        /\ proc[p].checked_dttm - WorkingSince(p) = 2
        /\ db.last_state = WORKING

\* C20: AsyncExecuteReportScheduleCommand.run lets a CommandException raised
\* by validate or by the state machine pass unchanged and turns every other
\* exception into ReportScheduleUnexpectedError, so its caller sees a normal
\* return or a CommandException.
C20_UniformExceptionSurface ==
    \A p \in Procs :
        proc[p].pc = "done" =>
            /\ proc[p].outcome \in CommandException \cup {"returned"}
            /\ proc[p].result \in CommandException \cup {"returned"} =>
                   proc[p].outcome = proc[p].result
            /\ proc[p].result \notin CommandException \cup {"returned"} =>
                   proc[p].outcome = ReportScheduleUnexpectedError

\* building the content raised an exception of no application class: the
\* handler logged it and raised it, the command raised the unexpected error
C20_Witness ==
    \E p \in Procs :
        /\ proc[p].pc = "done"
        /\ proc[p].handler = ReportNotTriggeredErrorState
        /\ proc[p].result = Exception
        /\ proc[p].outcome = ReportScheduleUnexpectedError
        /\ RowsOf(p)[2].error_message = "str:Exception"

\* C14 as stated: no invocation loads the schedule row while another
\* invocation has committed a state update whose log row does not exist yet.
C14_NoLoadBetweenCommits ==
    [][\A q \in DOMAIN proc :
          (proc[q].pc = "idle" /\ proc'[q].pc # "idle") =>
              \A p \in DOMAIN proc \ {q} : proc[p].pc # "create_log"]_vars

\* invocation p is inside the step that evaluates the trigger, renders and
\* notifies the recipients
InStep(p) == proc[p].pc \in {"nte_alert", "nte_send", "suc_alert", "suc_send"}

\* invocation p committed a state update and has not written its log row
BetweenCommits(p) == proc[p].pc = "create_log"

\* C14, amended: in each invocation every state update is followed by its
\* log row before the invocation does anything else, so an invocation is at
\* most one row behind its updates and only between the two commits; the
\* update and the row are two commits, and another invocation can load the
\* schedule between them.
C14_RowFollowsUpdate ==
    \A p \in DOMAIN proc :
        /\ BetweenCommits(p) => proc[p].updates = Len(RowsOf(p)) + 1
        /\ ~BetweenCommits(p) => proc[p].updates = Len(RowsOf(p))

\* the first invocation committed WORKING and has not written the log row;
\* the second loaded WORKING from the schedule row while the log is empty
C14_Witness ==
    /\ BetweenCommits(1)
    /\ proc[1].model.last_state = WORKING
    /\ log = <<>>
    /\ proc[2].pc = "wrk_next"
    /\ proc[2].loaded_state = WORKING

\* the handler of invocation p marks the schedule WORKING before that step
Marks(p) ==
    \/ proc[p].handler = ReportNotTriggeredErrorState
    \/ proc[p].handler = ReportSuccessState /\ config.type = ALERT

\* C16 as stated: of two overlapping invocations at most one is inside the
\* evaluate / render / notify step at any time.
C16_OneInStep ==
    \A p, q \in DOMAIN proc :
        (p # q /\ InStep(p)) => ~InStep(q)

\* C16, amended: an invocation that loads the schedule in WORKING is never
\* inside the step and sends nothing, and while an invocation that marked
\* the schedule WORKING is inside the step the persisted state is WORKING
\* unless the other invocation has written the state since.
C16_SerialisedOnceCommitted ==
    \A p \in DOMAIN proc :
        /\ ObservedWorking(p) =>
               /\ ~InStep(p)
               /\ proc[p].renders = 0
               /\ proc[p].sent = <<>>
        /\ (InStep(p) /\ Marks(p) /\ db.last_state # WORKING) =>
               \E q \in DOMAIN proc \ {p} :
                   /\ proc[q].updates > 0
                   /\ db.last_state = proc[q].model.last_state
                   /\ db.last_eval_dttm = proc[q].model.last_eval_dttm

\* both invocations loaded NOOP before either committed WORKING, both went
\* through the step and both notified the recipients
C16_Witness ==
    /\ proc[1].loaded_state = NOOP
    /\ proc[2].loaded_state = NOOP
    /\ proc[1].pc = "done"
    /\ proc[2].pc = "done"
    /\ proc[1].sent = Recipients
    /\ proc[2].sent = Recipients
    /\ db.last_state = SUCCESS

\* C21: when the schedule row does not exist, an invocation ends at once with
\* ReportScheduleNotFoundError, which its caller sees; no handler is entered,
\* no state field changes, no log row is written, nothing is evaluated,
\* rendered or sent, and the invocation makes one attempt only.
C21_MissingScheduleFails ==
    [][db = NoSchedule =>
          /\ db' = NoSchedule
          /\ log' = log
          /\ \A p \in DOMAIN proc :
                proc'[p] # proc[p] =>
                    /\ runs' = runs + 1
                    /\ proc'[p].uuid = runs'
                    /\ proc'[p].pc = "done"
                    /\ proc'[p].result = ReportScheduleNotFoundError
                    /\ proc'[p].outcome = ReportScheduleNotFoundError
                    /\ proc'[p].handler = NoHandler
                    /\ proc'[p].updates = 0
                    /\ proc'[p].evals = 0
                    /\ proc'[p].renders = 0
                    /\ proc'[p].sent = <<>>
                    /\ proc'[p].error_calls = 0
                    /\ proc'[p].owner_sent = <<>>]_vars

\* a second invocation on the missing schedule failed like the first
C21_Witness ==
    \E p \in Procs :
        /\ db = NoSchedule
        /\ proc[p].pc = "done"
        /\ proc[p].uuid = 2
        /\ proc[p].outcome = ReportScheduleNotFoundError
        /\ log = <<>>

\* the content builder was called and returned a content that is not an
\* error text
BuiltContent ==
    /\ callArgs.called
    /\ callArgs.fn = "_get_notification_content"
    /\ callResult.content.raised = NoException
    /\ callResult.content.text = None

\* the payload kinds a content carries
PayloadKinds(c) ==
    {k \in {"screenshots", "data", "embedded_data"} : c[k] # EMPTY}

\* the payload kind the configuration asks for, if any
AskedKinds(a) ==
    IF a.chart /\ a.report_format = TEXT THEN {"embedded_data"}
    ELSE IF ~(a.attach \/ a.type = REPORT) THEN {}
    ELSE IF a.report_format = VISUALIZATION THEN {"screenshots"}
    ELSE IF a.chart /\ a.report_format \in {PDF, DATA} THEN {"data"}
    ELSE {}

\* C22 as stated: a built non-error content has exactly one populated
\* payload kind among screenshots, document/data bytes and embedded snapshot
C22_ExactlyOnePayload ==
    BuiltContent => Cardinality(PayloadKinds(callResult.content)) = 1

\* C22: a built non-error content never has more than one populated payload
\* kind; it has exactly the one of its format where the format has a getter
\* for the target, and none for an alert with ALERTS_ATTACH_REPORTS off whose
\* format is not TEXT and for a dashboard with the DATA or TEXT format
C22_AtMostOnePayload ==
    BuiltContent =>
        /\ Cardinality(PayloadKinds(callResult.content)) <= 1
        /\ PayloadKinds(callResult.content) = AskedKinds(callArgs)

C22_Witness ==
    /\ BuiltContent
    /\ callArgs.type = REPORT /\ callArgs.chart /\ callArgs.report_format = PDF
    /\ PayloadKinds(callResult.content) = {"data"}

\* the content builder was called
ContentCalled ==
    callArgs.called /\ callArgs.fn = "_get_notification_content"

\* the getter of the report format ran and its collaborator returned nothing
RequiredPayloadEmpty ==
    /\ ContentCalled
    /\ callArgs.attach \/ callArgs.type = REPORT
    /\ \/ callArgs.report_format = VISUALIZATION /\ callArgs.screenshot = EMPTY
       \/ /\ callArgs.chart /\ callArgs.report_format \in {PDF, DATA}
          /\ callArgs.query_context \/ callArgs.screenshot = PAYLOAD
          /\ callArgs.data = EMPTY

\* the error a getter raises for the payload of the format
FailedErrorOf(format) ==
    CASE format = VISUALIZATION -> ReportScheduleScreenshotFailedError
      [] format = PDF -> ReportSchedulePdfFailedError
      [] format = DATA -> ReportScheduleCsvFailedError
      [] OTHER -> Exception

\* C23 as stated: when the payload required by the format is empty the
\* content is replaced by the missing artifact error text, no normal content
\* is delivered and the run does not end in SUCCESS
C23_EmptyPayloadErrorText ==
    RequiredPayloadEmpty =>
        /\ callResult.content.text \in MissingArtifactTexts
        /\ PayloadKinds(callResult.content) = {}
        /\ callResult.state # SUCCESS

\* C23: when the payload required by the format is empty the getter raises
\* the failed error of the format, so no content is built (no missing
\* artifact text either), nothing is delivered to the recipients and the run
\* does not end in SUCCESS
C23_EmptyPayloadRaises ==
    RequiredPayloadEmpty =>
        /\ callResult.content.raised = FailedErrorOf(callArgs.report_format)
        /\ callResult.content.text = None
        /\ PayloadKinds(callResult.content) = {}
        /\ ~callResult.delivered
        /\ callResult.state # SUCCESS

C23_Witness ==
    /\ RequiredPayloadEmpty
    /\ callArgs.report_format = DATA
    /\ callResult.content.raised = ReportScheduleCsvFailedError
    /\ callResult.state = ERROR

\* every channel of the recipients 1..n sends
AllSent(n) == [i \in 1..n |-> StatusSent]

\* _send in dry-run mode does, whatever the channels would do, what _send
\* does when every channel sends, except that nothing is transmitted
DryRunAsAllSent ==
    \A n \in 0..MaxRecipients : \A status \in [1..n -> SendStatuses] :
        LET recipients == [i \in 1..n |-> i]
            dry == _send(recipients, status, TRUE)
        IN  /\ dry.transmitted = <<>>
            /\ dry.errors = <<>>
            /\ dry.raised = NoException
            /\ dry = [_send(recipients, AllSent(n), FALSE)
                          EXCEPT !.transmitted = <<>>]

\* C24: in dry-run mode no notification is transmitted to a recipient or to
\* an owner in any run, _send collects no failure and never raises, and the
\* runs log what runs log in which every send succeeds: no run handles or
\* raises a failure of _send, no row carries the message of one, and each
\* error notification leaves the row with the marker
C24_DryRunSendsNothing ==
    /\ DryRunAsAllSent
    /\ config.dry_run =>
          /\ \A p \in DOMAIN proc :
                /\ proc[p].sent = <<>> /\ proc[p].owner_sent = <<>>
                /\ proc[p].first_ex \notin SupersetErrorsException
                /\ proc[p].result \notin SupersetErrorsException
                /\ (proc[p].pc = "done" /\ proc[p].error_calls > 0) =>
                      \E i \in 1..Len(log) :
                          /\ log[i].uuid = proc[p].uuid
                          /\ log[i].state = ERROR
                          /\ log[i].error_message =
                                 REPORT_SCHEDULE_ERROR_NOTIFICATION_MARKER
          /\ \A i \in 1..Len(log) :
                log[i].error_message \notin
                    {JoinedMessages(ex) : ex \in SupersetErrorsException}

C24_Witness ==
    /\ config.dry_run
    /\ \E p \in Procs :
          /\ proc[p].pc = "done" /\ proc[p].renders = 1
          /\ proc[p].result = "returned" /\ proc[p].sent = <<>>
          /\ db.last_state = SUCCESS

\* the outcome of the call c of a collaborator in the run of the builder
OutcomeOfCall(c) ==
    IF c.collaborator = "screenshot" THEN callArgs.screenshot
    ELSE IF c.collaborator = "dashboard document" THEN Exception
    ELSE callArgs.data

\* the typed timeout errors of the report schedule
TimeoutErrors ==
    {ReportScheduleScreenshotTimeout, ReportSchedulePdfTimeout,
     ReportScheduleCsvTimeout, ReportScheduleDataFrameTimeout}

\* a collaborator the builder called ran into the soft time limit
SoftTimeLimitHit ==
    /\ ContentCalled
    /\ \E i \in 1..Len(callResult.content.calls) :
          OutcomeOfCall(callResult.content.calls[i]) = SoftTimeLimitExceeded

\* C25 as stated: on every rendering path of the content builder a soft
\* time-limit signal raised by the collaborator reaches the handler as a
\* typed timeout error, never raw and never as a non-timeout failure error
C25_SoftTimeLimitTyped ==
    SoftTimeLimitHit => callResult.content.raised \in TimeoutErrors

\* C26 as stated: every call of a rendering or query collaborator in a run is
\* made under the identity get_executor returns for the schedule
C26_OneIdentity ==
    ContentCalled =>
        \A i \in 1..Len(callResult.content.calls) :
            callResult.content.calls[i].identity = callArgs.executor

\* getAllTables was called on a layout
TablesCalled == callArgs.called /\ callArgs.fn = "getAllTables"

\* the component that holds c in the layout (0: none)
ParentOf(props, c) ==
    IF \E d \in DOMAIN props : \E i \in 1..Len(props[d].children) :
           props[d].children[i] = c
    THEN CHOOSE d \in DOMAIN props : \E i \in 1..Len(props[d].children) :
           props[d].children[i] = c
    ELSE 0

\* c and the components that hold it, directly or not
RECURSIVE Holders(_, _)
Holders(props, c) ==
    IF c = 0 THEN {} ELSE {c} \cup Holders(props, ParentOf(props, c))

\* the components reachable from the root
Reachable(props) == {c \in DOMAIN props : ROOT_ID \in Holders(props, c)}

\* the position of the child c of component d among the children of d
ChildIndex(props, d, c) ==
    CHOOSE i \in 1..Len(props[d].children) : props[d].children[i] = c

\* x comes before y when the layout is walked depth first: where their
\* branches part, the branch of x is an earlier child than the branch of y
Before(props, x, y) ==
    \E d \in Holders(props, x) \cap Holders(props, y) :
        \E bx \in Holders(props, x), by \in Holders(props, y) :
            /\ bx # by
            /\ ParentOf(props, bx) = d /\ ParentOf(props, by) = d
            /\ ChildIndex(props, d, bx) < ChildIndex(props, d, by)

\* C28: on a layout tree getAllTables returns the CHART and MARKDOWN
\* components reachable from the root, each one once and no other component,
\* in depth-first order along the order of the children of each component
C28_DepthFirstLeaves ==
    TablesCalled =>
        LET props == callArgs.props
            tables == callResult.tables
        IN  /\ \A c \in Reachable(props) :
                  props[c].type \in {CHART, MARKDOWN} =>
                      Cardinality({i \in 1..Len(tables) :
                                      tables[i].meta = c}) = 1
            /\ \A i \in 1..Len(tables) :
                  /\ tables[i].meta \in Reachable(props)
                  /\ props[tables[i].meta].type \in {CHART, MARKDOWN}
                  /\ tables[i].type = props[tables[i].meta].type
            /\ \A i, j \in 1..Len(tables) :
                  i < j => Before(props, tables[i].meta, tables[j].meta)

C28_Witness ==
    /\ TablesCalled
    /\ Len(callResult.tables) = 2
    /\ callResult.tables[1].meta = 4 /\ callResult.tables[2].meta = 3
    /\ ParentOf(callArgs.props, 4) = 2 /\ ParentOf(callArgs.props, 3) = 1
    /\ Cardinality(DOMAIN callArgs.props \ Reachable(callArgs.props)) = 0

\* the charts of the result whose slice has a stored query context
QueriedCharts ==
    {i \in 1..Len(callResult.tables) :
        /\ callResult.tables[i].type = CHART
        /\ callResult.tables[i].dataframe # NoData}

\* the query context the slice of the chart of entry i was stored with
StoredOf(i) ==
    LET k == CHOOSE k \in 1..Len(callArgs.slices) :
                 callArgs.slices[k].slice_id = callResult.tables[i].meta
    IN  callArgs.slices[k].query_context

\* the form data the query of the chart of entry i was run with
ExecutedOf(i) == callResult.tables[i].dataframe.form_data

\* the time filters whose value is not the empty string
ActiveTimeFilters ==
    {f \in 1..Len(callArgs.filters) :
        /\ callArgs.filters[f].filterType = FILTER_TIME
        /\ callArgs.filters[f].value # ""}

\* C29 as stated: the value of every time filter with a non-empty value is
\* the time range of every sub-query the chart's query is run with, and
\* without such a filter the stored time ranges are unchanged
C29_EveryFilterEverySubQuery ==
    TablesCalled =>
        \A i \in QueriedCharts :
            /\ \A f \in ActiveTimeFilters :
                  \A q \in 1..Len(ExecutedOf(i).queries) :
                      ExecutedOf(i).queries[q] = callArgs.filters[f].value
            /\ ActiveTimeFilters = {} => ExecutedOf(i) = StoredOf(i)

\* C29: the value of the last time filter whose value is not the empty
\* string is the time range of every sub-query that was stored with a
\* time_range and of the form data when the chart's query is run, the
\* sub-queries stored without a time_range are left without one, and without
\* such a filter the stored query context is unchanged
C29_LastFilterStoredTimeRanges ==
    TablesCalled =>
        \A i \in QueriedCharts :
            IF ActiveTimeFilters = {} THEN ExecutedOf(i) = StoredOf(i)
            ELSE LET last == CHOOSE f \in ActiveTimeFilters :
                                 \A g \in ActiveTimeFilters : g <= f
                     value == callArgs.filters[last].value
                 IN  /\ Len(ExecutedOf(i).queries) = Len(StoredOf(i).queries)
                     /\ \A q \in 1..Len(StoredOf(i).queries) :
                           ExecutedOf(i).queries[q] =
                               IF StoredOf(i).queries[q] = NoKey
                               THEN NoKey ELSE value
                     /\ ExecutedOf(i).time_range = value

C29_Witness ==
    /\ TablesCalled
    /\ QueriedCharts = {1}
    /\ Len(callArgs.filters) = 2
    /\ callArgs.filters[1].value = "Last week"
    /\ callArgs.filters[2].value = "Last year"
    /\ ActiveTimeFilters = {1, 2}
    /\ StoredOf(1).queries = <<STORED, NoKey>>
    /\ ExecutedOf(1).queries = <<"Last year", NoKey>>

\* get_pdf_image was called on a dashboard
PdfImageCalled == callArgs.called /\ callArgs.fn = "get_pdf_image"

\* the entries of a type in the form data of the document
EntriesOf(type) ==
    {i \in 1..Len(callResult.formData) : callResult.formData[i].type = type}

\* C27 as stated: building the document of a dashboard with N CHART
\* components and M filters succeeds, and the document has one table section
\* per CHART component, in the order of the traversal, and one filter line
\* per filter, in the order of the filters
C27_DocumentOfLayout ==
    PdfImageCalled =>
        /\ callResult.raised = NoException
        /\ callResult.document # EMPTY
        /\ Cardinality(EntriesOf(CHART)) =
               Cardinality({c \in Reachable(callArgs.props) :
                               callArgs.props[c].type = CHART})
        /\ \A i, j \in EntriesOf(CHART) :
               i < j => Before(callArgs.props, callResult.formData[i].meta,
                               callResult.formData[j].meta)
        /\ Cardinality(EntriesOf("FILTER")) = Len(callArgs.filters)

SendErrorCalled == callArgs.called /\ callArgs.fn = "send_error"

RowStates(p) == [i \in 1..Len(RowsOf(p)) |-> RowsOf(p)[i].state]

\* C31: a finished run of ReportNotTriggeredErrorState appended the rows
\* WORKING, NOOP (alert not triggered), WORKING, SUCCESS, WORKING, ERROR
\* (failure in the error grace window) or WORKING, ERROR, ERROR (failure out
\* of it); the message of the third row is the error notification marker when
\* send_error succeeded and the message of its failure otherwise
C31_RowsOfNotTriggeredRun ==
    \A p \in Procs :
        (proc[p].pc = "done" /\ proc[p].handler = ReportNotTriggeredErrorState) =>
            /\ RowStates(p) \in {<<WORKING, NOOP>>, <<WORKING, SUCCESS>>,
                                 <<WORKING, ERROR>>, <<WORKING, ERROR, ERROR>>}
            /\ (RowStates(p) = <<WORKING, NOOP>>) <=>
                   (proc[p].trigger = "not triggered")
            /\ (RowStates(p) = <<WORKING, SUCCESS>>) <=>
                   (proc[p].result = "returned"
                        /\ proc[p].trigger # "not triggered")
            /\ (RowStates(p) = <<WORKING, ERROR>>) <=>
                   (proc[p].first_ex # NoException /\ proc[p].error_calls = 0)
            /\ (RowStates(p) = <<WORKING, ERROR, ERROR>>) <=>
                   (proc[p].first_ex # NoException /\ proc[p].error_calls = 1)
            /\ Len(RowsOf(p)) = 3 =>
                   RowsOf(p)[3].error_message =
                       IF proc[p].second_ex = NoException
                       THEN REPORT_SCHEDULE_ERROR_NOTIFICATION_MARKER
                       ELSE JoinedMessages(proc[p].second_ex)

C31_Witness ==
    \E p \in Procs :
        /\ proc[p].pc = "done"
        /\ proc[p].handler = ReportNotTriggeredErrorState
        /\ RowStates(p) = <<WORKING, ERROR, ERROR>>
        /\ proc[p].second_ex = ReportScheduleSystemErrorsException
        /\ RowsOf(p)[3].error_message =
               "errors:ReportScheduleSystemErrorsException"

\* invocation p appended a WORKING row of its own: it entered WORKING
EnteredWorkingItself(p) ==
    \E i \in 1..Len(RowsOf(p)) :
        RowsOf(p)[i].state = WORKING /\ RowsOf(p)[i].error_message = None

\* C32 as stated: when next() of a handler has finished, the persisted state
\* is WORKING only if the handler was ReportWorkingState yielding with
\* 'previous working'; a run of the two other handlers that entered WORKING
\* leaves NOOP, SUCCESS or ERROR, also when send_error fails
C32_WorkingOnlyWhenYielding ==
    \A p \in Procs :
        (proc[p].pc = "done" /\ proc[p].handler # NoHandler) =>
            /\ db.last_state = WORKING =>
                   /\ proc[p].handler = ReportWorkingState
                   /\ proc[p].result = ReportSchedulePreviousWorkingError
            /\ (proc[p].handler # ReportWorkingState /\ EnteredWorkingItself(p))
                   => db.last_state \in {NOOP, SUCCESS, ERROR}

\* C36 as stated: when AlertCommand fails in ReportSuccessState the owners are
\* notified without a look at the error grace window, ERROR is recorded with
\* the marker, the error of the evaluation is raised again and nothing is
\* sent to the recipients
C36_EvaluationFailureRecorded ==
    \A p \in Procs :
        (/\ proc[p].pc = "done"
         /\ proc[p].handler = ReportSuccessState
         /\ proc[p].trigger = AlertQueryError) =>
            /\ proc[p].error_calls = 1
            /\ db.last_state = ERROR
            /\ RowStates(p) = <<WORKING, ERROR>>
            /\ RowsOf(p)[2].error_message =
                   REPORT_SCHEDULE_ERROR_NOTIFICATION_MARKER
            /\ proc[p].result = AlertQueryError
            /\ proc[p].renders = 0
            /\ proc[p].sent = <<>>

\* invocation p is about to run send()
AboutToSend(p) == proc[p].pc \in {"nte_send", "suc_send"}

\* another invocation than p wrote the persisted state last
WrittenByOther(p) ==
    \E q \in DOMAIN proc \ {p} :
        /\ proc[q].updates > 0
        /\ db.last_state = proc[q].model.last_state
        /\ db.last_eval_dttm = proc[q].model.last_eval_dttm

\* C33 as stated: send() runs while the persisted state is WORKING, set by
\* the same invocation, also for a REPORT schedule in SUCCESS
C33_SendWhileWorking ==
    \A p \in DOMAIN proc :
        AboutToSend(p) =>
            /\ db.last_state = WORKING
            /\ EnteredWorkingItself(p)

\* C33, amended: send() of ReportNotTriggeredErrorState, and of
\* ReportSuccessState for an ALERT, follows a WORKING transition of the same
\* invocation, and the persisted state is WORKING unless an overlapping
\* invocation wrote it since; for a REPORT in SUCCESS or GRACE send() runs
\* without any transition of the invocation, the persisted state left as it
\* was loaded
C33_SendAfterOwnMark ==
    \A p \in DOMAIN proc :
        AboutToSend(p) =>
            IF Marks(p)
            THEN /\ EnteredWorkingItself(p)
                 /\ proc[p].model.last_state = WORKING
                 /\ db.last_state = WORKING \/ WrittenByOther(p)
            ELSE /\ config.type = REPORT
                 /\ proc[p].handler = ReportSuccessState
                 /\ proc[p].updates = 0
                 /\ RowsOf(p) = <<>>
                 /\ db.last_state = proc[p].loaded_state \/ WrittenByOther(p)

\* two invocations of a REPORT in SUCCESS are about to render and send at the
\* same time, the persisted state still SUCCESS
C33_Witness ==
    /\ config.type = REPORT
    /\ proc[1].pc = "suc_send" /\ proc[2].pc = "suc_send"
    /\ db.last_state = SUCCESS
    /\ log = <<>>

\* invocation q found the schedule WORKING past its timeout and forced ERROR
Reclaimer(q) ==
    /\ proc[q].handler = ReportWorkingState
    /\ proc[q].updates = 1
    /\ proc[q].model.last_state = ERROR

\* invocation p entered WORKING, is still in flight, and a later invocation
\* reclaimed the schedule
ReclaimedInFlight(p) ==
    /\ Running(p)
    /\ EnteredWorkingItself(p)
    /\ \E q \in DOMAIN proc \ {p} :
          Reclaimer(q) /\ proc[p].uuid < proc[q].uuid

\* C34 as stated: after the schedule was reclaimed and forced to ERROR the
\* reclaimed invocation changes neither the persisted state nor the log
C34_ReclaimedRunWritesNothing ==
    [][\A p \in DOMAIN proc :
          (ReclaimedInFlight(p) /\ proc'[p] # proc[p]) =>
              /\ db' = db
              /\ log' = log]_vars

\* C34, amended: the reclaimed invocation is not held back: each transition
\* it makes after the reclaim is written to the schedule as any other, so
\* when it finishes the persisted state is the NOOP, SUCCESS or ERROR of its
\* own outcome in place of the ERROR of the reclaim, and its rows are
\* appended to the log
C34_ReclaimedRunStillWrites ==
    [][\A p \in DOMAIN proc :
          (ReclaimedInFlight(p) /\ proc'[p].updates = proc[p].updates + 1) =>
              /\ db' = proc'[p].model
              /\ db'.last_state \in {NOOP, SUCCESS, ERROR}
              /\ (proc'[p].pc # "create_log") =>
                     /\ Len(log') = Len(log) + 1
                     /\ log'[Len(log')].uuid = proc[p].uuid
                     /\ log'[Len(log')].state = db'.last_state]_vars

\* invocation 1 entered WORKING, invocation 2 reclaimed the schedule after
\* the timeout and logged ERROR, then invocation 1 finished and left SUCCESS
C34_Witness ==
    /\ proc[1].pc = "done" /\ proc[2].pc = "done"
    /\ proc[1].uuid = 1 /\ proc[2].uuid = 2
    /\ proc[2].result = ReportScheduleWorkingTimeoutError
    /\ proc[1].result = "returned"
    /\ db.last_state = SUCCESS
    /\ Len(log) = 3
    /\ log[1].uuid = 1 /\ log[1].state = WORKING
    /\ log[2].uuid = 2 /\ log[2].state = ERROR
    /\ log[3].uuid = 1 /\ log[3].state = SUCCESS

\* C35: with one invocation at a time, whenever no invocation is in progress
\* the last row of the log, if there is one, has the persisted last_state,
\* and every row is appended with the state its transition persisted
C35_LogMirrorsState ==
    [][/\ ((\A p \in Procs : ~Running(p)') /\ Len(log') > 0)
              => log'[Len(log')].state = db'.last_state
       /\ log' # log =>
              /\ Len(log') = Len(log) + 1
              /\ SubSeq(log', 1, Len(log)) = log
              /\ log'[Len(log')].state = db'.last_state
              /\ log'[Len(log')].end_dttm = db'.last_eval_dttm]_vars

C35_Witness ==
    /\ runs = 2
    /\ \A p \in Procs : proc[p].pc = "done"
    /\ Len(log) = 5
    /\ log[3].state = ERROR
    /\ log[5].state = SUCCESS
    /\ db.last_state = SUCCESS


\* C37: a REPORT schedule that starts with no persisted state never has the
\* state NOOP or GRACE and never runs the alert command, whatever invocations
\* follow; rows and transitions to NOOP or GRACE belong to ALERT schedules
C37_ReportNeverNoopOrGrace ==
    /\ (config.type = REPORT /\ db.last_state = None)
           => [](/\ db.last_state \notin {NOOP, GRACE}
                 /\ \A p \in Procs : proc[p].evals = 0 /\ proc[p].trigger = "none")
    /\ [](\A i \in 1..Len(log) :
             log[i].state \in {NOOP, GRACE} => config.type = ALERT)
    /\ [][(db'.last_state \in {NOOP, GRACE} /\ db'.last_state # db.last_state)
              => config.type = ALERT]_vars

\* a REPORT schedule has been invoked twice, by the handler of the absent
\* state and then by the handler of SUCCESS, and stands at SUCCESS
C37_Witness ==
    /\ config.type = REPORT
    /\ runs = 2
    /\ \A p \in Procs : proc[p].pc = "done" /\ proc[p].handler = ReportSuccessState
    /\ Len(log) = 3
    /\ log[1].state = WORKING
    /\ log[2].state = SUCCESS
    /\ log[3].state = SUCCESS
    /\ db.last_state = SUCCESS


\* C38: with a grace period of 0 or none both grace checks are false, no row
\* of the log has the state GRACE, every ALERT run of ReportSuccessState
\* evaluates the alert and every failed run of ReportNotTriggeredErrorState
\* calls send_error; and whatever the period, the error grace check is false
\* while no row of the log carries the error notification marker
C38_NoGraceWithoutPeriod ==
    /\ ~Truthy(config.grace_period) =>
          /\ ~is_in_grace_period(log, now)
          /\ ~is_in_error_grace_period(log, now)
          /\ \A i \in 1..Len(log) : log[i].state # GRACE
          /\ \A p \in Procs :
                /\ (/\ config.type = ALERT
                    /\ proc[p].handler = ReportSuccessState
                    /\ proc[p].pc = "done") => proc[p].evals = 1
                /\ (/\ proc[p].handler = ReportNotTriggeredErrorState
                    /\ proc[p].pc = "done"
                    /\ proc[p].first_ex # NoException) => proc[p].error_calls = 1
    /\ find_last_error_notification(log) = NoRow =>
          ~is_in_error_grace_period(log, now)
    /\ \A p \in Procs :
          (/\ proc[p].handler = ReportNotTriggeredErrorState
           /\ proc[p].pc = "done"
           /\ proc[p].first_ex # NoException
           /\ find_last_error_notification(PriorRows(p)) = NoRow)
              => proc[p].error_calls = 1

\* an ALERT with a grace period of 0 was sent at the first invocation and is
\* evaluated again at the second, in the same second, and sent again
C38_Witness ==
    /\ config.type = ALERT
    /\ config.grace_period = 0
    /\ runs = 2
    /\ now = 0
    /\ find_last_success_log(log) # NoRow
    /\ \A p \in Procs :
          /\ proc[p].pc = "done"
          /\ proc[p].handler = ReportSuccessState
          /\ proc[p].evals = 1
          /\ proc[p].trigger = "triggered"
    /\ db.last_state = SUCCESS


\* the calls of the content builder to a collaborator of one of the kinds
RenderCalls(kinds) ==
    {i \in 1..Len(callResult.content.calls) :
        callResult.content.calls[i].collaborator \in kinds}

\* the schedule is an ALERT and ALERTS_ATTACH_REPORTS is off
AlertWithoutAttachment ==
    ContentCalled /\ callArgs.type = ALERT /\ ~callArgs.attach

\* the content carries no screenshot and no document or CSV bytes, and a
\* content that carries one is that of a REPORT or of the enabled feature
NoPayloadWithoutAttachment ==
    /\ AlertWithoutAttachment =>
          /\ callResult.content.screenshots = EMPTY
          /\ callResult.content.data = EMPTY
    /\ (/\ ContentCalled
        /\ \/ callResult.content.screenshots # EMPTY
           \/ callResult.content.data # EMPTY)
          => (callArgs.type = REPORT \/ callArgs.attach)

\* C39 as stated: for an ALERT with ALERTS_ATTACH_REPORTS off the content
\* builder renders no screenshot, no document and no CSV whatever the format,
\* and the content carries none of them; they are built only for a REPORT or
\* with the feature on
C39_NothingRenderedForAlert ==
    /\ AlertWithoutAttachment =>
          RenderCalls({"screenshot", "chart document", "dashboard document",
                       "csv", "query"}) = {}
    /\ NoPayloadWithoutAttachment

\* C39: for an ALERT with ALERTS_ATTACH_REPORTS off the content builder
\* renders no document and no CSV whatever the format, and no screenshot
\* other than the one that refreshes the missing query context of a chart
\* with the TEXT format; the content carries none of the three payloads,
\* which are built only for a REPORT or with the feature on
C39_NoPayloadForAlert ==
    /\ AlertWithoutAttachment =>
          /\ RenderCalls({"chart document", "dashboard document", "csv",
                          "query"}) = {}
          /\ RenderCalls({"screenshot"}) # {} =>
                /\ callArgs.chart
                /\ callArgs.report_format = TEXT
                /\ ~callArgs.query_context
                /\ RenderCalls({"screenshot"}) = {1}
    /\ NoPayloadWithoutAttachment

\* an ALERT with the feature off and the VISUALIZATION format, whose
\* screenshot would have been taken: the content is built without any call
C39_Witness ==
    /\ AlertWithoutAttachment
    /\ BuiltContent
    /\ callArgs.report_format = VISUALIZATION
    /\ callArgs.screenshot = PAYLOAD
    /\ callResult.content.calls = <<>>
    /\ callResult.content.screenshots = EMPTY


\* the key of the call just made, and the payload its capture and resize give
CalledKey ==
    cache_key(callArgs'.window_size, callArgs'.thumb_size)

FreshPayload ==
    LET shot == IF callArgs'.capture.raised = NoException
                THEN get_screenshot(CalledKey[1], callArgs'.capture)
                ELSE NoBytes
    IN  IF ~HasBytes(shot) \/ CalledKey[1] = CalledKey[2] THEN shot
        ELSE IF callArgs'.resize = NoException
        THEN resize_image(shot, CalledKey[2]) ELSE NoBytes

\* every entry a call writes is the non-empty payload of its own successful
\* capture (and resize), written under the key of the call
CacheHoldsCaptures ==
    \A k \in CacheKeys :
        callResult'.cache[k] # callResult.cache[k] =>
            /\ k = CalledKey
            /\ HasBytes(FreshPayload)
            /\ callResult'.cache[k] = FreshPayload
            /\ callResult'.driver = 1

\* a call whose capture or resize fails returns no payload and leaves the
\* cache as it was
FailureLeavesCache ==
    (callResult'.driver = 1 /\ ~HasBytes(FreshPayload)) =>
        /\ ~HasBytes(callResult'.returned.payload)
        /\ callResult'.cache = callResult.cache

\* get on a cache that has the thumbnail returns it without the driver
HitSkipsDriver ==
    (/\ callArgs'.fn = "get"
     /\ callArgs'.cache
     /\ HasBytes(callResult.cache[CalledKey])) =>
        /\ callResult'.returned = BytesIO(callResult.cache[CalledKey])
        /\ callResult'.raised = NoException
        /\ callResult'.driver = 0
        /\ callResult'.cache = callResult.cache

\* get without a cache returns the payload it has just computed
GetWithoutCacheComputes ==
    (callArgs'.fn = "get" /\ ~callArgs'.cache) =>
        /\ callResult'.driver = 1
        /\ callResult'.raised = NoException
        /\ callResult'.returned = IF HasBytes(FreshPayload)
                                  THEN BytesIO(FreshPayload) ELSE Raw(NoBytes)

\* the first three parts of C40, which do not depend on a call without a cache
ThumbnailCacheSound ==
    [][runs' # runs =>
          /\ CacheHoldsCaptures
          /\ FailureLeavesCache
          /\ HitSkipsDriver
          /\ \A k \in CacheKeys :
                callResult'.cache[k] = NoBytes \/ HasBytes(callResult'.cache[k])]_vars

\* C40: over any sequence of get and compute_and_cache calls the cache holds
\* only non-empty payloads of a successful capture (and resize), a failed
\* capture or resize returns no payload and leaves the cache unchanged, a
\* cache hit in get returns the cached payload without the driver, and get
\* without a cache returns the payload it has just computed
C40_ThumbnailCache ==
    [][runs' # runs =>
          /\ CacheHoldsCaptures
          /\ FailureLeavesCache
          /\ HitSkipsDriver
          /\ GetWithoutCacheComputes
          /\ \A k \in CacheKeys :
                callResult'.cache[k] = NoBytes \/ HasBytes(callResult'.cache[k])]_vars

\* get was called without a cache, the capture gave an image, and the
\* call raised AttributeError instead of returning the thumbnail
GetWithoutCacheRaised ==
    /\ callArgs.fn = "get"
    /\ ~callArgs.cache
    /\ callArgs.capture.raised = NoException
    /\ HasBytes(callArgs.capture.value)
    /\ callResult.raised = AttributeError
    /\ ~HasBytes(callResult.returned.payload)

\* get returned a thumbnail from the cache that an earlier call had put there
GetFromCache ==
    /\ runs >= 2
    /\ callArgs.fn = "get"
    /\ callArgs.cache
    /\ callResult.driver = 0
    /\ callResult.returned.stream
    /\ HasBytes(callResult.returned.payload)

====
